---- MODULE Spec2Model ----
(***************************************************************************)
(* A model of the strided-tensor execution engine of candle: tensor        *)
(* concatenation (candle-core/src/tensor_cat.rs), the storage dispatch     *)
(* (src/storage.rs), the Metal backend                                     *)
(* (candle-core/src/metal_backend.rs, candle-metal-kernels/src/lib.rs),    *)
(* the fork-join helpers of the CPU backend                                *)
(* (candle-core/src/cpu/kernels.rs) and the search-sorted custom op        *)
(* (candle-examples/examples/search-sorted/search_sorted.rs), with the     *)
(* locks of MetalDevice and of Kernels under several threads.              *)
(***************************************************************************)
EXTENDS Integers, Sequences, FiniteSets, TLC

\* ------------------------------------------------------------------ bounds
MaxArgs == 2
MaxRank == 2
MaxDim == 2

VARIABLES
    catArgs,    \* cat: the argument list `args`
    catDim,     \* cat: the `dim` argument
    catRes,     \* cat: the returned Result<Tensor>
    catPc,      \* cat: "call" before Tensor::cat has run, "done" after
    stLhs,      \* storage dispatch: the `self` operand (device, dtype)
    stRhs,      \* storage dispatch: the `rhs` operand (device, dtype)
    stRes,      \* storage dispatch: the returned Result<Storage>
    stCalls,    \* storage dispatch: the backend implementations called
    stPc,       \* storage dispatch: "call" before the call, "done" after
    mPool,      \* Metal: MetalDevice.buffers, the buffers in allocation order
    mStor,      \* Metal: the MetalStorage values the caller holds
    mCmds,      \* Metal: the commands encoded in the active command buffer
    mCbStatus,  \* Metal: MTLCommandBufferStatus of the active command buffer
    mQueue,     \* Metal: the committed commands the device has not run yet
    mBuild,     \* Metal: the build profile and the device's out-of-bounds policy
    mLast,      \* Metal: the last primitive called, its arguments and result
    mOps,       \* Metal: the number of calls made so far
    parCall,    \* fork-join: the function called and its arguments
    parPc,      \* fork-join: the position of the calling thread
    parIdx,     \* fork-join: the loop variable of the calling thread
    parTasks,   \* fork-join: the tasks spawned in the scope, by thread_idx
    parLog,     \* fork-join: how often func was entered and left, per argument
    ssCall,     \* search-sorted: the operands and the `right` flag
    ssRes,      \* search-sorted: the result of cpu_fwd
    ssPc,       \* search-sorted: "call" before cpu_fwd has run, "done" after
    bs,         \* binary_search: its arguments, `start`, `end` and its position
    kn,         \* Kernels: the two maps, their locks and the calling threads
    lk          \* MetalDevice: the two locks and the calling threads

catVars == <<catArgs, catDim, catRes, catPc>>

stVars == <<stLhs, stRhs, stRes, stCalls, stPc>>

metalVars == <<mPool, mStor, mCmds, mCbStatus, mQueue, mBuild, mLast, mOps>>

parVars == <<parCall, parPc, parIdx, parTasks, parLog>>

ssVars == <<ssCall, ssRes, ssPc>>

vars == <<catArgs, catDim, catRes, catPc, stLhs, stRhs, stRes, stCalls, stPc,
          mPool, mStor, mCmds, mCbStatus, mQueue, mBuild, mLast, mOps,
          parCall, parPc, parIdx, parTasks, parLog, ssCall, ssRes, ssPc,
          bs, kn, lk>>

\* The parts of the state a specification does not exercise stay at rest.
CatIdle ==
    /\ catArgs = <<>>
    /\ catDim = 0
    /\ catRes = [status |-> "None"]
    /\ catPc = "idle"

StorageIdle ==
    /\ stLhs = [device |-> <<"Cpu", 0>>, dtype |-> "F32"]
    /\ stRhs = [device |-> <<"Cpu", 0>>, dtype |-> "F32"]
    /\ stRes = [status |-> "None"]
    /\ stCalls = <<>>
    /\ stPc = "idle"

MetalIdle ==
    /\ mPool = <<>>
    /\ mStor = <<>>
    /\ mCmds = <<>>
    /\ mCbStatus = "NotEnqueued"
    /\ mQueue = <<>>
    /\ mBuild = [profile |-> "release", oob |-> "clip"]
    /\ mLast = [op |-> "none"]
    /\ mOps = 0

ParIdle ==
    /\ parCall = [fn |-> "none"]
    /\ parPc = "idle"
    /\ parIdx = 0
    /\ parTasks = <<>>
    /\ parLog = <<>>

SearchIdle ==
    /\ ssCall = [right |-> FALSE]
    /\ ssRes = [status |-> "None"]
    /\ ssPc = "idle"

\* No binary_search is traced, no Kernels call and no MetalDevice call of
\* several threads is under way.
ThreadsIdle ==
    /\ bs = [pc |-> "idle"]
    /\ kn = [pc |-> "idle"]
    /\ lk = [pc |-> "idle"]

\* ------------------------------------------------------- shape and layout
RECURSIVE Product(_)
Product(s) == IF s = <<>> THEN 1 ELSE Head(s) * Product(Tail(s))

RECURSIVE SumSeq(_)
SumSeq(s) == IF s = <<>> THEN 0 ELSE Head(s) + SumSeq(Tail(s))

\* Shape::elem_count: the product of the dims (1 for the empty shape).
ElemCount(dims) == Product(dims)

\* Shape::stride_contiguous: the canonical row-major strides of a shape.
StrideContiguous(dims) ==
    [k \in 1..Len(dims) |-> Product(SubSeq(dims, k + 1, Len(dims)))]

\* Layout::contiguous(shape): row-major strides and start offset 0.
LayoutContiguous(dims) ==
    [dims |-> dims, stride |-> StrideContiguous(dims), start_offset |-> 0]

\* Layout::is_contiguous: the strides are the canonical ones of the shape
\* (a layout without elements is contiguous).
IsContiguous(l) ==
    \/ l.stride = StrideContiguous(l.dims)
    \/ ElemCount(l.dims) = 0

Swap(s, i, j) ==
    [k \in 1..Len(s) |-> IF k = i THEN s[j] ELSE IF k = j THEN s[i] ELSE s[k]]

\* Layout::transpose(dim1, dim2) with 0-based dims: swaps the shape and the
\* stride entries; the storage is not touched.
LayoutTranspose(l, dim1, dim2) ==
    [dims |-> Swap(l.dims, dim1 + 1, dim2 + 1),
     stride |-> Swap(l.stride, dim1 + 1, dim2 + 1),
     start_offset |-> l.start_offset]

\* Layout::narrow(dim, start, len) with a 0-based dim.
LayoutNarrow(l, dim, start, len) ==
    [dims |-> [l.dims EXCEPT ![dim + 1] = len],
     stride |-> l.stride,
     start_offset |-> l.start_offset + start * l.stride[dim + 1]]

\* The coordinate along 0-based dimension k-1 of the i-th element (0-based)
\* of a shape in row-major order.
Coord(dims, i, k) ==
    (i \div Product(SubSeq(dims, k + 1, Len(dims)))) % dims[k]

\* The storage position (0-based) of a multi-index under a layout:
\* start_offset + sum of index[k] * stride[k].
OffsetOf(l, idx) ==
    l.start_offset + SumSeq([k \in 1..Len(l.dims) |-> idx[k] * l.stride[k]])

\* The storage position (0-based) of the i-th element (0-based) of a layout
\* visited in row-major order of its shape (StridedIndex).
StridedIndex(l, i) ==
    OffsetOf(l, [k \in 1..Len(l.dims) |-> Coord(l.dims, i, k)])

\* The multi-indices of a shape.
MultiIndices(dims) ==
    {[k \in 1..Len(dims) |-> Coord(dims, i, k)] : i \in 0..(ElemCount(dims) - 1)}

\* ------------------------------------------------------------ Tensor::cat
Rank(t) == Len(t.layout.dims)

Dims(t) == t.layout.dims

\* The value a zero-initialised storage holds at every position.
Zero == <<0, 0>>

OkRes(t) == [status |-> "Ok", tensor |-> t]

ErrRes(e) == [status |-> "Err", err |-> e]

NoError == [kind |-> "None"]

\* The first element of a sequence of per-argument check results that is an
\* error, NoError when there is none: the `?` leaves the loop at the first.
RECURSIVE FirstError(_)
FirstError(errs) ==
    IF errs = <<>> THEN NoError
    ELSE IF Head(errs).kind # "None" THEN Head(errs)
    ELSE FirstError(Tail(errs))

\* Dim::to_index / Tensor::check_dim for a usize dim: in range iff < rank.
DimInRange(t, dim) == dim < Rank(t)

\* Tensor::transpose(dim1, dim2): the same storage under the transposed
\* layout.
TensorTranspose(t, dim1, dim2) ==
    [t EXCEPT !.layout = LayoutTranspose(t.layout, dim1, dim2)]

\* The least 0-based dimension, other than `skip`, on which two shapes of
\* the same rank differ; the rank when there is none.
FirstDimMismatch(d1, d2, skip) ==
    LET bad == {k \in 1..Len(d1) : k - 1 # skip /\ d1[k] # d2[k]}
    IN IF bad = {} THEN Len(d1)
       ELSE (CHOOSE k \in bad : \A j \in bad : k <= j) - 1

\* Tensor::cat, the body of the validation loop for the argument at
\* 1-based position i (arg_idx = i - 1).
CatCheckArg(arg0, arg, i, dim) ==
    IF Rank(arg0) # Rank(arg)
    THEN [kind |-> "UnexpectedNumberOfDims", expected |-> Rank(arg0),
          got |-> Rank(arg), shape |-> Dims(arg)]
    ELSE IF FirstDimMismatch(Dims(arg0), Dims(arg), dim) < Rank(arg0)
    THEN [kind |-> "ShapeMismatchCat",
          dim |-> FirstDimMismatch(Dims(arg0), Dims(arg), dim),
          first_shape |-> Dims(arg0), n |-> (i - 1) + 1,
          nth_shape |-> Dims(arg)]
    ELSE NoError

\* Cat0CheckArg without the dtype comparison.
Cat0CheckArg_NoDType(arg0, arg, i) ==
    IF arg.device # arg0.device
    THEN [kind |-> "DeviceMismatchBinaryOp", lhs |-> arg0.device,
          rhs |-> arg.device, op |-> "cat"]
    ELSE CatCheckArg(arg0, arg, i, 0)

\* Tensor::cat0, the checks of the loop body for the argument at 1-based
\* position i: dtype, device, rank, then the sizes of the dims other than 0.
Cat0CheckArg(arg0, arg, i) ==
    IF arg.dtype # arg0.dtype
    THEN [kind |-> "DTypeMismatchBinaryOp", lhs |-> arg0.dtype,
          rhs |-> arg.dtype, op |-> "cat"]
    ELSE IF arg.device # arg0.device
    THEN [kind |-> "DeviceMismatchBinaryOp", lhs |-> arg0.device,
          rhs |-> arg.device, op |-> "cat"]
    ELSE CatCheckArg(arg0, arg, i, 0)

\* Cat0Dims without `cat_dims[0] = 0`: the first size is counted twice.
Cat0Dims_NoReset(args) ==
    [Dims(args[1]) EXCEPT
        ![1] = Dims(args[1])[1] + SumSeq([i \in 1..Len(args) |-> Dims(args[i])[1]])]

\* Tensor::cat0: cat_dims, the first shape with dimension 0 replaced by the
\* sum of the arguments' sizes along dimension 0.
Cat0Dims(args) ==
    [Dims(args[1]) EXCEPT ![1] = SumSeq([i \in 1..Len(args) |-> Dims(args[i])[1]])]

\* Cat0Offsets advancing by the size along dimension 0 instead of the
\* element count.
RECURSIVE Cat0Offsets_Dim0(_)
Cat0Offsets_Dim0(args) ==
    IF args = <<>> THEN <<0>>
    ELSE LET prev == Cat0Offsets_Dim0(SubSeq(args, 1, Len(args) - 1))
         IN Append(prev, prev[Len(prev)] + Dims(args[Len(args)])[1])

\* Tensor::cat0: offsets, starting <<0>> and pushing last + elem_count.
RECURSIVE Cat0Offsets(_)
Cat0Offsets(args) ==
    IF args = <<>> THEN <<0>>
    ELSE LET prev == Cat0Offsets(SubSeq(args, 1, Len(args) - 1))
         IN Append(prev, prev[Len(prev)] + ElemCount(Dims(args[Len(args)])))

\* Device::zeros: a storage of elem_count zeros.
DeviceZeros(dims) == [p \in 1..ElemCount(dims) |-> Zero]

\* Storage::copy_strided_src(dst, dst_offset, src_l): the elements visited
\* by src_l, in row-major order of its shape, go to dst from dst_offset on;
\* positions past the end of dst are not written.
StorageCopyStridedSrc(src, dst, dst_offset, src_l) ==
    [p \in 1..Len(dst) |->
        IF dst_offset <= p - 1 /\ p - 1 < dst_offset + ElemCount(src_l.dims)
        THEN src[StridedIndex(src_l, p - 1 - dst_offset) + 1]
        ELSE dst[p]]

\* Tensor::cat0: the copy loop over args.iter().zip(offsets.iter()), from
\* the argument at position i on.
RECURSIVE Cat0Copy(_, _, _, _)
Cat0Copy(storage, args, offsets, i) ==
    IF i > Len(args) THEN storage
    ELSE Cat0Copy(
            StorageCopyStridedSrc(args[i].data, storage, offsets[i], args[i].layout),
            args, offsets, i + 1)

\* from_storage wrapping the storage under unit strides.
FromStorage_UnitStride(storage, dims, dtype, device) ==
    [layout |-> [dims |-> dims, stride |-> [k \in 1..Len(dims) |-> 1], start_offset |-> 0],
     dtype |-> dtype, device |-> device, storage |-> 0, data |-> storage]

\* from_storage(storage, shape, ..): a tensor over a new storage with the
\* contiguous layout of the shape.
FromStorage(storage, dims, dtype, device) ==
    [layout |-> LayoutContiguous(dims), dtype |-> dtype, device |-> device,
     storage |-> 0, data |-> storage]

\* Tensor::cat0
Cat0(args) ==
    IF args = <<>> THEN ErrRes([kind |-> "OpRequiresAtLeastOneTensor", op |-> "cat"])
    ELSE IF Len(args) = 1 THEN OkRes(args[1])
    ELSE LET err == FirstError([i \in 1..Len(args) |-> Cat0CheckArg(args[1], args[i], i)])
         IN IF err.kind # "None" THEN ErrRes(err)
            ELSE OkRes(FromStorage(
                    Cat0Copy(DeviceZeros(Cat0Dims(args)), args, Cat0Offsets(args), 1),
                    Cat0Dims(args), args[1].dtype, args[1].device))

\* Tensor::cat resolving dim before the one-element shortcut.
Cat_DimFirst(args, dim) ==
    IF args = <<>> THEN ErrRes([kind |-> "OpRequiresAtLeastOneTensor", op |-> "cat"])
    ELSE IF \E i \in 1..Len(args) : ~DimInRange(args[i], dim)
    THEN ErrRes([kind |-> "DimOutOfRange", dim |-> dim, op |-> "cat"])
    ELSE IF Len(args) = 1 THEN OkRes(args[1])
    ELSE LET err == FirstError([i \in 1..Len(args) |-> CatCheckArg(args[1], args[i], i, dim)])
         IN IF err.kind # "None" THEN ErrRes(err)
            ELSE IF dim = 0 THEN Cat0(args)
            ELSE LET cat == Cat0([i \in 1..Len(args) |-> TensorTranspose(args[i], 0, dim)])
                 IN IF cat.status = "Err" THEN cat
                    ELSE OkRes(TensorTranspose(cat.tensor, 0, dim))

\* Tensor::cat without the transpose of the result back to the inputs' axes.
Cat_NoTransposeBack(args, dim) ==
    IF args = <<>> THEN ErrRes([kind |-> "OpRequiresAtLeastOneTensor", op |-> "cat"])
    ELSE IF Len(args) = 1 THEN OkRes(args[1])
    ELSE IF \E i \in 1..Len(args) : ~DimInRange(args[i], dim)
    THEN ErrRes([kind |-> "DimOutOfRange", dim |-> dim, op |-> "cat"])
    ELSE LET err == FirstError([i \in 1..Len(args) |-> CatCheckArg(args[1], args[i], i, dim)])
         IN IF err.kind # "None" THEN ErrRes(err)
            ELSE IF dim = 0 THEN Cat0(args)
            ELSE Cat0([i \in 1..Len(args) |-> TensorTranspose(args[i], 0, dim)])

\* Tensor::cat
Cat(args, dim) ==
    IF args = <<>> THEN ErrRes([kind |-> "OpRequiresAtLeastOneTensor", op |-> "cat"])
    ELSE IF Len(args) = 1 THEN OkRes(args[1])
    ELSE IF \E i \in 1..Len(args) : ~DimInRange(args[i], dim)
    THEN ErrRes([kind |-> "DimOutOfRange", dim |-> dim, op |-> "cat"])
    ELSE LET err == FirstError([i \in 1..Len(args) |-> CatCheckArg(args[1], args[i], i, dim)])
         IN IF err.kind # "None" THEN ErrRes(err)
            ELSE IF dim = 0 THEN Cat0(args)
            ELSE LET cat == Cat0([i \in 1..Len(args) |-> TensorTranspose(args[i], 0, dim)])
                 IN IF cat.status = "Err" THEN cat
                    ELSE OkRes(TensorTranspose(cat.tensor, 0, dim))

\* ------------------------------------------------ the inputs of Tensor::cat
CatShapes == UNION {[1..r -> 1..MaxDim] : r \in 1..MaxRank}

\* Number of storage elements a layout needs: its last position plus one.
BufLen(l) ==
    l.start_offset + SumSeq([k \in 1..Len(l.dims) |-> (l.dims[k] - 1) * l.stride[k]]) + 1

\* The layouts a tensor of shape s can have: the contiguous one, the rows
\* from 1 on of a tensor one row longer (narrow), and, for rank >= 2, the
\* transposed view of the tensor with the first and last sizes exchanged.
CatViews(s) ==
    {LayoutContiguous(s),
     LayoutNarrow(LayoutContiguous([s EXCEPT ![1] = s[1] + 1]), 0, 1, s[1])}
    \cup (IF Len(s) >= 2
          THEN {LayoutTranspose(LayoutContiguous(Swap(s, 1, Len(s))), 0, Len(s) - 1)}
          ELSE {})

\* The shape s with any size along dim.
Resized(s, dim) ==
    IF dim < Len(s) THEN {[s EXCEPT ![dim + 1] = d] : d \in 1..MaxDim} ELSE {s}

\* The shape s with another size on one dimension other than dim.
OtherSizes(s, dim) ==
    {[s EXCEPT ![k] = (s[k] % MaxDim) + 1] : k \in 1..Len(s) \ {dim + 1}}

\* A shape of another rank than s.
OtherRank(s) == IF Len(s) > 1 THEN Tail(s) ELSE s \o <<1>>

Meta(l, dtype, device) == [layout |-> l, dtype |-> dtype, device |-> device]

\* What a later argument can be when the first has shape s: s resized along
\* dim under any view, or a tensor of another dtype, device, rank, or size
\* on another dimension.
CatVariants(s, dim) ==
    {Meta(l, "F32", "Cpu") : l \in UNION {CatViews(x) : x \in Resized(s, dim)}}
    \cup {Meta(LayoutContiguous(s), "F16", "Cpu"),
          Meta(LayoutContiguous(s), "F32", "Cuda0"),
          Meta(LayoutContiguous(OtherRank(s)), "F32", "Cpu")}
    \cup {Meta(LayoutContiguous(x), "F32", "Cpu") : x \in OtherSizes(s, dim)}

\* The i-th argument: its storage holds the distinct values <<i, 1>>,
\* <<i, 2>>, ...
CatArg(i, m) ==
    [layout |-> m.layout, dtype |-> m.dtype, device |-> m.device,
     storage |-> i,
     data |-> [j \in 1..BufLen(m.layout) |-> <<i, j>>]]

NoResult == [status |-> "None"]

CatInit ==
    /\ catDim \in 0..(MaxRank - 1)
    /\ \/ catArgs = <<>>
       \/ \E n \in 1..MaxArgs : \E s \in CatShapes : \E l \in CatViews(s) :
            \E rest \in [2..n -> CatVariants(s, catDim)] :
                catArgs = [i \in 1..n |->
                    IF i = 1 THEN CatArg(1, Meta(l, "F32", "Cpu")) ELSE CatArg(i, rest[i])]
    /\ catRes = NoResult
    /\ catPc = "call"
    /\ StorageIdle
    /\ MetalIdle
    /\ ParIdle
    /\ SearchIdle
    /\ ThreadsIdle

\* Tensor::cat(args, dim)
CatCall ==
    /\ catPc = "call"
    /\ catRes' = Cat(catArgs, catDim)
    /\ catPc' = "done"
    /\ UNCHANGED <<catArgs, catDim>>
    /\ UNCHANGED <<stVars, metalVars, parVars, ssVars, bs, kn, lk>>

CatNext == CatCall

SpecCat == CatInit /\ [][CatNext]_vars

\* ------------------------------------------------- claims on Tensor::cat
\* The inputs cat accepts: two or more tensors of one rank, dtype and
\* device, dim within the rank, equal sizes on every dimension but dim.
ValidCatInputs(args, dim) ==
    /\ Len(args) >= 2
    /\ dim < Rank(args[1])
    /\ \A i \in 1..Len(args) :
        /\ Rank(args[i]) = Rank(args[1])
        /\ args[i].dtype = args[1].dtype
        /\ args[i].device = args[1].device
        /\ \A k \in 1..Rank(args[1]) : k - 1 # dim => Dims(args[i])[k] = Dims(args[1])[k]

\* o_i of the claim: the element counts of the inputs before input i.
ClaimOffset(args, i) == SumSeq([j \in 1..(i - 1) |-> ElemCount(Dims(args[j]))])

C2_CatShape ==
    (catPc = "done" /\ ValidCatInputs(catArgs, catDim)) =>
        /\ catRes.status = "Ok"
        /\ Rank(catRes.tensor) = Rank(catArgs[1])
        /\ \A k \in 1..Rank(catArgs[1]) :
            Dims(catRes.tensor)[k] =
                IF k - 1 = catDim
                THEN SumSeq([i \in 1..Len(catArgs) |-> Dims(catArgs[i])[k]])
                ELSE Dims(catArgs[1])[k]

\* Two [2,2] tensors concatenated along dim 1 give [2,4].
C2_Witness ==
    /\ catPc = "done" /\ catDim = 1
    /\ Len(catArgs) = 2
    /\ Dims(catArgs[1]) = <<2, 2>> /\ Dims(catArgs[2]) = <<2, 2>>
    /\ catRes.status = "Ok"
    /\ Dims(catRes.tensor) = <<2, 4>>

\* The input that owns coordinate c along dim, and c within that input.
ClaimOwner(args, dim, c) ==
    CHOOSE k \in 1..Len(args) :
        /\ SumSeq([j \in 1..(k - 1) |-> Dims(args[j])[dim + 1]]) <= c
        /\ c < SumSeq([j \in 1..k |-> Dims(args[j])[dim + 1]])

ClaimLocal(args, dim, c) ==
    c - SumSeq([j \in 1..(ClaimOwner(args, dim, c) - 1) |-> Dims(args[j])[dim + 1]])

\* The element of a tensor at a multi-index.
At(t, idx) == t.data[OffsetOf(t.layout, idx) + 1]

C4_CatEmptyAndSingle ==
    catPc = "done" =>
        /\ Len(catArgs) = 0 =>
            (catRes.status = "Err" /\ catRes.err.kind = "OpRequiresAtLeastOneTensor")
        /\ Len(catArgs) = 1 =>
            (catRes.status = "Ok" /\ catRes.tensor = catArgs[1])

\* One tensor of rank 1 with dim = 1, which is out of its range.
C4_Witness ==
    /\ catPc = "done"
    /\ Len(catArgs) = 1
    /\ catDim >= Rank(catArgs[1])
    /\ catRes.status = "Ok"

\* Input i differs from the first in rank, dtype, device or in a size of a
\* dimension other than dim.
Offending(args, dim, i) ==
    \/ Rank(args[i]) # Rank(args[1])
    \/ args[i].dtype # args[1].dtype
    \/ args[i].device # args[1].device
    \/ \E k \in 1..Rank(args[1]) : k - 1 # dim /\ Dims(args[i])[k] # Dims(args[1])[k]

C21_CatContiguous ==
    (catPc = "done" /\ ValidCatInputs(catArgs, catDim)) =>
        /\ catRes.status = "Ok"
        /\ IsContiguous(catRes.tensor.layout)
        /\ catRes.tensor.layout.start_offset = 0
        /\ catRes.tensor.storage = 0

\* C21 as the code has it: the tensor returned by cat for two or more
\* inputs has start offset 0 over freshly allocated storage of exactly its
\* element count; for dim == 0 its layout is the contiguous row-major one,
\* for dim != 0 it is the transpose(0, dim) of the contiguous row-major
\* layout of the shape with dimensions 0 and dim swapped.
C21_CatLayout ==
    (catPc = "done" /\ ValidCatInputs(catArgs, catDim)) =>
        /\ catRes.status = "Ok"
        /\ catRes.tensor.layout.start_offset = 0
        /\ catRes.tensor.storage = 0
        /\ \A i \in 1..Len(catArgs) : catArgs[i].storage # catRes.tensor.storage
        /\ Len(catRes.tensor.data) = ElemCount(Dims(catRes.tensor))
        /\ catRes.tensor.layout =
              LayoutTranspose(
                  LayoutContiguous(Swap(Dims(catRes.tensor), 1, catDim + 1)), 0, catDim)

\* Two [2,2] tensors concatenated along dim 1: the result has shape [2,4]
\* and stride [1,2], which is not contiguous.
C21_Witness ==
    /\ catPc = "done" /\ catDim = 1 /\ ValidCatInputs(catArgs, 1)
    /\ catRes.status = "Ok"
    /\ catRes.tensor.layout = [dims |-> <<2, 4>>, stride |-> <<1, 2>>, start_offset |-> 0]
    /\ ~IsContiguous(catRes.tensor.layout)

\* -------------------------------------------------------- Storage dispatch
\* (src/storage.rs, built with the cuda feature)
NumGpus == 2

\* DType: the closed enum of element types.
DTypes == {"U8", "U32", "I64", "BF16", "F16", "F32", "F64"}

\* DeviceLocation::Cpu (the gpu_id is unused for it)
CpuLocation == <<"Cpu", 0>>

\* Device::location of the devices a Storage can live on.
Devices == {CpuLocation} \cup {<<"Cuda", g>> : g \in 0..(NumGpus - 1)}

\* A Storage as the dispatch sees it: its device and its dtype.
Storages == [device : Devices, dtype : DTypes]

\* Storage::same_device
SameDevice(lhs, rhs, op) ==
    IF lhs.device # rhs.device
    THEN [kind |-> "DeviceMismatchBinaryOp", lhs |-> lhs.device,
          rhs |-> rhs.device, op |-> op]
    ELSE NoError

\* Storage::same_dtype
SameDType(lhs, rhs, op) ==
    IF lhs.dtype # rhs.dtype
    THEN [kind |-> "DTypeMismatchBinaryOp", lhs |-> lhs.dtype,
          rhs |-> rhs.dtype, op |-> op]
    ELSE NoError

\* The `match (self, rhs)` of binary_impl and matmul_impl once both checks
\* have passed: the backend of the operands' variant is called and its
\* Result is passed on; `backend_ok` is that backend's outcome.
StorageDispatch(lhs, rhs, op, backend_ok) ==
    IF lhs.device = CpuLocation /\ rhs.device = CpuLocation
    THEN [res |-> IF backend_ok THEN [status |-> "Ok", storage |-> lhs]
                  ELSE ErrRes([kind |-> "Backend", op |-> op]),
          calls |-> <<"cpu">>]
    ELSE IF lhs.device # CpuLocation /\ rhs.device # CpuLocation
    THEN [res |-> IF backend_ok THEN [status |-> "Ok", storage |-> lhs]
                  ELSE ErrRes([kind |-> "Backend", op |-> op]),
          calls |-> <<"cuda">>]
    ELSE [res |-> ErrRes([kind |-> "DeviceMismatchBinaryOp", lhs |-> lhs.device,
                          rhs |-> rhs.device, op |-> op]),
          calls |-> <<>>]

StorageBinaryImpl_DTypeFirst(lhs, rhs, op, backend_ok) ==
    IF SameDType(lhs, rhs, op).kind # "None"
    THEN [res |-> ErrRes(SameDType(lhs, rhs, op)), calls |-> <<>>]
    ELSE IF SameDevice(lhs, rhs, op).kind # "None"
    THEN [res |-> ErrRes(SameDevice(lhs, rhs, op)), calls |-> <<>>]
    ELSE StorageDispatch(lhs, rhs, op, backend_ok)

\* Storage::binary_impl::<B> with B::NAME = op
StorageBinaryImpl(lhs, rhs, op, backend_ok) ==
    IF SameDevice(lhs, rhs, op).kind # "None"
    THEN [res |-> ErrRes(SameDevice(lhs, rhs, op)), calls |-> <<>>]
    ELSE IF SameDType(lhs, rhs, op).kind # "None"
    THEN [res |-> ErrRes(SameDType(lhs, rhs, op)), calls |-> <<>>]
    ELSE StorageDispatch(lhs, rhs, op, backend_ok)

\* Storage::matmul_impl
StorageMatmulImpl(lhs, rhs, backend_ok) ==
    IF SameDevice(lhs, rhs, "matmul").kind # "None"
    THEN [res |-> ErrRes(SameDevice(lhs, rhs, "matmul")), calls |-> <<>>]
    ELSE IF SameDType(lhs, rhs, "matmul").kind # "None"
    THEN [res |-> ErrRes(SameDType(lhs, rhs, "matmul")), calls |-> <<>>]
    ELSE StorageDispatch(lhs, rhs, "matmul", backend_ok)

\* B::NAME of the binary ops the dispatch is instantiated with.
BinaryOpNames == {"add", "mul"}

StorageInit ==
    /\ stLhs \in Storages
    /\ stRhs \in Storages
    /\ stRes = NoResult
    /\ stCalls = <<>>
    /\ stPc = "call"
    /\ CatIdle
    /\ MetalIdle
    /\ ParIdle
    /\ SearchIdle
    /\ ThreadsIdle

\* self.binary_impl::<B>(rhs, shape, lhs_stride, rhs_stride)
StorageBinaryImplCall ==
    /\ stPc = "call"
    /\ \E op \in BinaryOpNames : \E backend_ok \in BOOLEAN :
        /\ stRes' = StorageBinaryImpl(stLhs, stRhs, op, backend_ok).res
        /\ stCalls' = stCalls \o StorageBinaryImpl(stLhs, stRhs, op, backend_ok).calls
    /\ stPc' = "done"
    /\ UNCHANGED <<stLhs, stRhs, catVars, metalVars, parVars, ssVars, bs, kn, lk>>

\* self.matmul_impl(rhs, bmnk, lhs_stride, rhs_stride)
StorageMatmulImplCall ==
    /\ stPc = "call"
    /\ \E backend_ok \in BOOLEAN :
        /\ stRes' = StorageMatmulImpl(stLhs, stRhs, backend_ok).res
        /\ stCalls' = stCalls \o StorageMatmulImpl(stLhs, stRhs, backend_ok).calls
    /\ stPc' = "done"
    /\ UNCHANGED <<stLhs, stRhs, catVars, metalVars, parVars, ssVars, bs, kn, lk>>

StorageNext == StorageBinaryImplCall \/ StorageMatmulImplCall

SpecStorage == StorageInit /\ [][StorageNext]_vars

\* ---------------------------------------------- claims on Storage dispatch
\* C7: Storage::binary_impl and Storage::matmul_impl return
\* DeviceMismatchBinaryOp when the operands live on different devices (also
\* when the dtypes differ as well) and DTypeMismatchBinaryOp when they live
\* on one device with different dtypes, and in both cases no backend
\* implementation has been called.
C7_DeviceBeforeDType ==
    stPc = "done" =>
        /\ stLhs.device # stRhs.device =>
            /\ stRes.status = "Err"
            /\ stRes.err.kind = "DeviceMismatchBinaryOp"
            /\ stCalls = <<>>
        /\ (stLhs.device = stRhs.device /\ stLhs.dtype # stRhs.dtype) =>
            /\ stRes.status = "Err"
            /\ stRes.err.kind = "DTypeMismatchBinaryOp"
            /\ stCalls = <<>>

\* binary_impl of a Cuda F32 storage with an F16 storage of another Cuda
\* device has returned the device error.
C7_Witness ==
    /\ stPc = "done"
    /\ stLhs = [device |-> <<"Cuda", 0>>, dtype |-> "F32"]
    /\ stRhs = [device |-> <<"Cuda", 1>>, dtype |-> "F16"]
    /\ stRes.status = "Err"
    /\ stRes.err.kind = "DeviceMismatchBinaryOp"
    /\ stRes.err.op = "add"
    /\ stCalls = <<>>

\* ------------------------------------------------------------ Metal backend
\* (candle-core/src/metal_backend.rs, candle-metal-kernels/src/lib.rs)
MaxElems == 4
MaxOps == 3
MetalMaxRank == 2

\* DType::size_in_bytes
SizeInBytes(dtype) ==
    CASE dtype = "U8" -> 1
      [] dtype \in {"BF16", "F16"} -> 2
      [] dtype \in {"U32", "F32"} -> 4
      [] OTHER -> 8

\* The value of an element whose bits are not those of a value the program
\* wrote with this element type.
Garbage == <<0, 0, "garbage">>

\* The value a kernel computing f writes for the input value v; a blit and
\* the copy kernel (f = "") write v itself.
Apply(f, v) ==
    IF f = "" THEN v ELSE IF v = Garbage THEN Garbage ELSE Append(v, f)

\* Arc::strong_count of the pool's buffer b: the pool's own reference and one
\* for every MetalStorage holding the buffer.
StrongCount(stor, b) ==
    1 + Cardinality({i \in 1..Len(stor) : stor[i].live /\ stor[i].buffer = b})

\* device.new_buffer(size, option) of the Metal API: fresh zero-filled memory.
FreshBuffer(size, option) ==
    [size |-> size, option |-> option, dt |-> "U8", data |-> [j \in 1..size |-> Zero]]

\* The bytes of a buffer read as elements of another type: `size / width`
\* elements, zero where every byte is zero.
Retag(buf, dtype) ==
    IF buf.dt = dtype THEN buf
    ELSE [buf EXCEPT !.dt = dtype,
                     !.data = [j \in 1..(buf.size \div SizeInBytes(dtype)) |->
                                 IF \A c \in 1..Len(buf.data) : buf.data[c] = Zero
                                 THEN Zero ELSE Garbage]]

\* _new_buffer with a pool keyed by the size alone.
NewBufferInner_SizeKey(m, size, option) ==
    LET free == {i \in 1..Len(m.pool) :
                    m.pool[i].size = size /\ StrongCount(m.stor, i) = 1}
    IN IF free # {}
       THEN [m |-> m, id |-> CHOOSE i \in free : \A j \in free : i <= j]
       ELSE [m |-> [m EXCEPT !.pool = Append(@, FreshBuffer(size, option))],
             id |-> Len(m.pool) + 1]

\* _new_buffer without the test on the strong count: any pooled buffer of
\* the key is handed out.
NewBufferInner_AnyCount(m, size, option) ==
    LET same == {i \in 1..Len(m.pool) :
                    m.pool[i].size = size /\ m.pool[i].option = option}
    IN IF same # {}
       THEN [m |-> m, id |-> CHOOSE i \in same : \A j \in same : i <= j]
       ELSE [m |-> [m EXCEPT !.pool = Append(@, FreshBuffer(size, option))],
             id |-> Len(m.pool) + 1]

\* MetalDevice::_new_buffer: the first pooled buffer of this (size, option)
\* whose strong count is 1, else a new buffer pushed on the pool.
NewBufferInner(m, size, option) ==
    LET free == {i \in 1..Len(m.pool) :
                    /\ m.pool[i].size = size
                    /\ m.pool[i].option = option
                    /\ StrongCount(m.stor, i) = 1}
    IN IF free # {}
       THEN [m |-> m, id |-> CHOOSE i \in free : \A j \in free : i <= j]
       ELSE [m |-> [m EXCEPT !.pool = Append(@, FreshBuffer(size, option))],
             id |-> Len(m.pool) + 1]

\* MetalDevice::new_buffer(element_count, dtype)
NewBuffer(m, element_count, dtype) ==
    LET r == NewBufferInner(m, element_count * SizeInBytes(dtype), "Private")
    IN [m |-> [r.m EXCEPT !.pool[r.id] = Retag(@, dtype)], id |-> r.id]

\* MetalStorage::new(buffer, device, dtype), handed to the caller.
MetalStorageNew(m, buffer, dtype) ==
    [m EXCEPT !.stor = Append(@, [buffer |-> buffer, dtype |-> dtype, live |-> TRUE])]

\* An encoded command: the device reads the cells `reads` (0-based, in
\* elements of w bytes; -1 for a value the model leaves opaque) of buffer
\* `src` (of `data` when src = 0), applies f and writes the results to the
\* consecutive cells of `dst` from `dstStart` (in elements of wOut bytes).
Cmd(f, w, wOut, src, data, reads, dst, dstStart) ==
    [f |-> f, w |-> w, wOut |-> wOut, src |-> src, data |-> data,
     reads |-> reads, dst |-> dst, dstStart |-> dstStart]

\* blit.copy_from_buffer(src, src_offset, dst, dst_offset, size), in bytes,
\* for buffers holding elements of w bytes.
BlitCopyFromBuffer(w, src, data, src_offset, dst, dst_offset, size) ==
    Cmd("", w, w, src, data,
        [i \in 1..(size \div w) |-> (src_offset \div w) + i - 1],
        dst, dst_offset \div w)

\* candle_metal_kernels::call_unary_contiguous: input and output bound at
\* offset 0, `length` elements.
CallUnaryContiguous(f, w, length, input, output) ==
    Cmd(f, w, w, input, <<>>, [i \in 1..length |-> i - 1], output, 0)

\* candle_metal_kernels::call_unary_strided: input bound at the byte
\* `offset`, output at the byte `output_offset`; the kernel visits the
\* shape in row-major order through the strides.
CallUnaryStrided(f, w, shape, input, strides, offset, output, output_offset) ==
    Cmd(f, w, w, input, <<>>,
        [i \in 1..Product(shape) |->
            (offset \div w)
            + StridedIndex([dims |-> shape, stride |-> strides, start_offset |-> 0], i - 1)],
        output, output_offset \div w)

\* candle_metal_kernels::call_cast_contiguous: input and output bound at
\* offset 0, `length` elements.
CallCastContiguous(f, w, wOut, length, input, output) ==
    Cmd(f, w, wOut, input, <<>>, [i \in 1..length |-> i - 1], output, 0)

\* candle_metal_kernels::call_cast_strided
CallCastStrided(f, w, wOut, shape, input, strides, offset, output) ==
    Cmd(f, w, wOut, input, <<>>,
        [i \in 1..Product(shape) |->
            (offset \div w)
            + StridedIndex([dims |-> shape, stride |-> strides, start_offset |-> 0], i - 1)],
        output, 0)

\* A kernel whose values the model leaves opaque (the MPS matrix
\* multiplication, call_reduce_contiguous): it writes `count` elements.
CallOpaque(f, w, count, input, output) ==
    Cmd(f, w, w, input, <<>>, [i \in 1..count |-> 0 - 1], output, 0)

\* A command reads or writes outside its buffers.
OutOfBounds(pool, c) ==
    LET srcLen == IF c.src = 0 THEN Len(c.data) ELSE Len(pool[c.src].data)
    IN \/ \E i \in 1..Len(c.reads) : c.reads[i] >= srcLen
       \/ c.dstStart + Len(c.reads) > Len(pool[c.dst].data)

\* The device runs one command. An access outside a buffer is undefined:
\* under the policy "fault" the command is dropped, under "clip" reads
\* outside yield garbage and writes outside are dropped.
Exec(pool, c, oob) ==
    LET srcData == IF c.src = 0 THEN c.data ELSE pool[c.src].data
        srcW == IF c.src = 0 THEN c.w ELSE SizeInBytes(pool[c.src].dt)
        Val(i) == IF c.reads[i] < 0 THEN Apply(c.f, Zero)
                  ELSE IF srcW # c.w \/ c.reads[i] >= Len(srcData) THEN Garbage
                  ELSE Apply(c.f, srcData[c.reads[i] + 1])
    IN IF OutOfBounds(pool, c) /\ oob = "fault" THEN pool
       ELSE IF SizeInBytes(pool[c.dst].dt) # c.wOut
       THEN [pool EXCEPT ![c.dst].data = [j \in 1..Len(@) |-> Garbage]]
       ELSE [pool EXCEPT ![c.dst].data =
                [j \in 1..Len(@) |->
                    IF j - 1 >= c.dstStart /\ j - 1 < c.dstStart + Len(c.reads)
                    THEN Val(j - c.dstStart) ELSE @[j]]]

\* The memory once the device has run the commands in order.
RECURSIVE Settle(_, _, _)
Settle(pool, cmds, oob) ==
    IF cmds = <<>> THEN pool ELSE Settle(Exec(pool, Head(cmds), oob), Tail(cmds), oob)

\* The contents of every buffer once all the work encoded so far has run.
Settled(m, oob) ==
    LET p == Settle(m.pool, m.queue \o m.cmds, oob)
    IN [b \in 1..Len(p) |-> p[b].data]

\* Appending a command to the active command buffer.
Encode(m, c) == [m EXCEPT !.cmds = Append(@, c)]

\* commit without the installation of a new command buffer.
Commit_NoRotate(m) ==
    IF m.cb \in {"NotEnqueued", "Enqueued"}
    THEN [m EXCEPT !.queue = @ \o m.cmds, !.cmds = <<>>, !.cb = "Committed"]
    ELSE m

\* MetalDevice::commit: a command buffer that is NotEnqueued or Enqueued is
\* committed (its commands go to the device, in order) and replaced by a new
\* command buffer of the queue; any other status leaves everything as it is.
Commit(m) ==
    IF m.cb \in {"NotEnqueued", "Enqueued"}
    THEN [m EXCEPT !.queue = @ \o m.cmds, !.cmds = <<>>, !.cb = "NotEnqueued"]
    ELSE m

\* MetalDevice::wait_until_completed up to the blocking call: the command
\* buffer is committed and the caller waits on it, the device's handle
\* still pointing to it.
WaitCommit(m) ==
    IF m.cb \in {"NotEnqueued", "Enqueued"}
    THEN [m EXCEPT !.queue = @ \o m.cmds, !.cmds = <<>>, !.cb = "Committed"]
    ELSE m

\* A wait that returns at once.
WaitReturns_NoBlock(m) == TRUE

\* CommandBuffer::wait_until_completed returns: the device has run every
\* command of the buffer and, as a queue runs its buffers in order, every
\* command committed before.
WaitReturns(m) == m.cb = "Committed" => m.queue = <<>>

\* MetalDevice::wait_until_completed after the blocking call: a new
\* command buffer is installed.
WaitRotate(m) == [m EXCEPT !.cmds = <<>>, !.cb = "NotEnqueued"]

\* What a primitive returns and what it did on the way.
Ret(m, status, err, out, allocs, encoded, committed) ==
    [m |-> m, status |-> status, err |-> err, msg |-> <<>>, out |-> out,
     allocs |-> allocs, encoded |-> encoded, committed |-> committed]

\* crate::bail!("<text>"): the message error, carrying the words of the text.
Bail(m, text) == [Ret(m, "Err", "Msg", 0, 0, 0, FALSE) EXCEPT !.msg = text]

\* MetalDevice::new_buffer_with_data and storage_from_cpu_storage: a pooled
\* private buffer and a blit of the data into it; nothing is committed.
StorageFromCpuStorage(m, data, dtype) ==
    LET w == SizeInBytes(dtype)
        r == NewBufferInner(m, Len(data) * w, "Private")
        m1 == [r.m EXCEPT !.pool[r.id] = Retag(@, dtype)]
        m2 == Encode(m1, BlitCopyFromBuffer(w, 0, data, 0, r.id, 0, Len(data) * w))
        m3 == MetalStorageNew(m2, r.id, dtype)
    IN Ret(m3, "Ok", "", Len(m3.stor), 1, 1, FALSE)

\* MetalDevice::zeros_impl: a pooled buffer, nothing is written to it.
ZerosImpl(m, dims, dtype) ==
    LET nb == NewBuffer(m, ElemCount(dims), dtype)
        m1 == MetalStorageNew(nb.m, nb.id, dtype)
    IN Ret(m1, "Ok", "", Len(m1.stor), 1, 0, FALSE)

\* B::KERNEL of the unary ops unary_impl has a kernel for.
UnaryKernels ==
    {"ucos", "usin", "usqr", "usqrt", "uneg", "uexp", "ulog", "ugelu",
     "ugelu_erf", "uerf", "uceil", "ufloor", "uround"}

\* unary_impl flushing the command buffer before it returns its error.
UnaryImpl_CommitOnError(m, s, layout, B) ==
    LET el_count == ElemCount(layout.dims)
        nb == NewBuffer(m, el_count, s.dtype)
        w == SizeInBytes(s.dtype)
    IN IF ~(B \in UnaryKernels /\ s.dtype \in {"F32", "F16"})
       THEN Ret(Commit(nb.m), "Err", "Msg", 0, 1, 0, TRUE)
       ELSE LET c == IF IsContiguous(layout) /\ layout.start_offset = 0
                     THEN CallUnaryContiguous(B, w, el_count, s.buffer, nb.id)
                     ELSE CallUnaryStrided(B, w, layout.dims, s.buffer, layout.stride,
                                           layout.start_offset * w, nb.id, 0)
                m1 == MetalStorageNew(Commit(Encode(nb.m, c)), nb.id, s.dtype)
            IN Ret(m1, "Ok", "", Len(m1.stor), 1, 1, TRUE)

\* MetalStorage::unary_impl::<B>
UnaryImpl(m, s, layout, B) ==
    LET el_count == ElemCount(layout.dims)
        nb == NewBuffer(m, el_count, s.dtype)
        w == SizeInBytes(s.dtype)
    IN IF ~(B \in UnaryKernels /\ s.dtype \in {"F32", "F16"})
       THEN Ret(nb.m, "Err", "Msg", 0, 1, 0, FALSE)
       ELSE LET c == IF IsContiguous(layout) /\ layout.start_offset = 0
                     THEN CallUnaryContiguous(B, w, el_count, s.buffer, nb.id)
                     ELSE CallUnaryStrided(B, w, layout.dims, s.buffer, layout.stride,
                                           layout.start_offset * w, nb.id, 0)
                m1 == MetalStorageNew(Commit(Encode(nb.m, c)), nb.id, s.dtype)
            IN Ret(m1, "Ok", "", Len(m1.stor), 1, 1, TRUE)

\* The (source, target) dtype pairs to_dtype has a cast kernel for.
CastKernels == {<<"U32", "F32">>, <<"F32", "F16">>, <<"F16", "F32">>}

\* MetalStorage::to_dtype
ToDtype(m, s, layout, dtype) ==
    LET el_count == ElemCount(layout.dims)
        nb == NewBuffer(m, el_count, dtype)
        w == SizeInBytes(s.dtype)
        f == "cast"
    IN IF <<s.dtype, dtype>> \notin CastKernels
       THEN Ret(nb.m, "Err", "Msg", 0, 1, 0, FALSE)
       ELSE LET c == IF IsContiguous(layout)
                     THEN CallCastContiguous(f, w, SizeInBytes(dtype), el_count,
                                             s.buffer, nb.id)
                     ELSE CallCastStrided(f, w, SizeInBytes(dtype), layout.dims, s.buffer,
                                          layout.stride, layout.start_offset * w, nb.id)
                m1 == MetalStorageNew(Encode(nb.m, c), nb.id, dtype)
            IN Ret(m1, "Ok", "", Len(m1.stor), 1, 1, FALSE)

\* The last two strides of a layout are (rows, 1): row-major.
StrideRowMajor(stride, rows) ==
    stride[Len(stride)] = 1 /\ stride[Len(stride) - 1] = rows

\* The last two strides of a layout are (1, cols): transposed.
StrideTransposed(stride, cols) ==
    stride[Len(stride)] = cols /\ stride[Len(stride) - 1] = 1

\* MetalStorage::matmul with (b, m, n, k) = bmnk. The todo!() on the dtype
\* and the indexing of the last two strides panic.
Matmul(m, lhs, rhs, bmnk, lhs_l, rhs_l) ==
    LET mm == bmnk[2]
        n == bmnk[3]
        k == bmnk[4]
        w == SizeInBytes(lhs.dtype)
    IN IF lhs.dtype \notin {"F32", "F16"} THEN Ret(m, "Panic", "todo", 0, 0, 0, FALSE)
       ELSE IF Len(rhs_l.stride) < 2 \/ Len(lhs_l.stride) < 2
       THEN Ret(m, "Panic", "index out of bounds", 0, 0, 0, FALSE)
       ELSE IF ~(StrideRowMajor(lhs_l.stride, k) \/ StrideTransposed(lhs_l.stride, mm))
       THEN Ret(m, "Err", "MatMulNonContiguous", 0, 0, 0, FALSE)
       ELSE IF ~(StrideRowMajor(rhs_l.stride, n) \/ StrideTransposed(rhs_l.stride, k))
       THEN Ret(m, "Err", "MatMulNonContiguous", 0, 0, 0, FALSE)
       ELSE LET nb == NewBuffer(m, bmnk[1] * mm * n, lhs.dtype)
                c == CallOpaque("matmul", w, bmnk[1] * mm * n, lhs.buffer, nb.id)
                m1 == MetalStorageNew(Commit(Encode(nb.m, c)), nb.id, lhs.dtype)
            IN Ret(m1, "Ok", "", Len(m1.stor), 1, 1, TRUE)

\* The primitives of BackendStorage that MetalStorage does not implement.
UnsupportedOps ==
    {"powf", "elu", "cmp", "conv1d", "conv_transpose1d", "conv2d",
     "conv_transpose2d", "avg_pool2d", "max_pool2d", "upsample_nearest1d",
     "upsample_nearest2d", "gather", "scatter_add", "index_add"}

\* The text each of them bails with, word by word.
UnsupportedText(op) ==
    IF op = "conv_transpose2d" THEN <<"conv_tranpose2d", "metal">> ELSE <<op, "metal">>

\* MetalStorage::powf, elu, cmp, conv1d, .., index_add: the arguments are
\* ignored and the call bails.
Unsupported(m, op) == Bail(m, UnsupportedText(op))

\* Buffer::read_to_vec on the buffer b as the host sees it: the contents of
\* a buffer in managed storage; a buffer in private storage has no host
\* pointer the API defines, and the read yields its contents or garbage.
HostReads(pool, b) ==
    IF pool[b].option = "Managed" THEN {pool[b].data}
    ELSE {pool[b].data, [j \in 1..Len(pool[b].data) |-> Garbage]}

\* MetalStorage::to_cpu_storage up to the blocking wait: a managed staging
\* buffer from the pool, a blit of the whole buffer into it, and
\* wait_until_completed committing the command buffer.
ToCpuStorage(m, s) ==
    LET w == SizeInBytes(s.dtype)
        length == m.pool[s.buffer].size
        r == NewBufferInner(m, length, "Managed")
        m1 == [r.m EXCEPT !.pool[r.id] = Retag(@, s.dtype)]
        c == BlitCopyFromBuffer(w, s.buffer, <<>>, 0, r.id, 0, length)
    IN IF length % w # 0 THEN Bail(m, <<"not", "aligned">>)
       ELSE Ret(WaitCommit(Encode(m1, c)), "Ok", "", 0, 1, 1, TRUE)

\* candle_metal_kernels::call_reduce_contiguous: output cell j reduces the
\* src_el / dst_el input cells of row j; the sum of an empty row is 0.
CallReduceContiguous(f, w, src_el, dst_el, input, output) ==
    IF src_el = 0
    THEN Cmd("", w, w, input, <<>>, [i \in 1..dst_el |-> 0 - 1], output, 0)
    ELSE CallOpaque(f, w, dst_el, input, output)

\* The reduce ops with a kernel, all on F32.
ReduceKernels == {"Sum", "Min", "Max", "ArgMin", "ArgMax"}

\* A kernel selection that checks no op for emptiness.
CheckEmpty_Never(op) == FALSE

\* check_empty of the kernel selection: every op but the sum.
CheckEmpty(op) == op # "Sum"

\* return_index of the kernel selection.
ReturnIndex(op) == op \in {"ArgMin", "ArgMax"}

\* MetalStorage::reduce_op. `rank() - 1` on a rank-0 layout overflows usize:
\* a panic in a build with overflow checks (profile "debug"), a wrap to the
\* largest usize (which no sum_dims[0] of the model equals) without.
ReduceOp(m, s, op, layout, sum_dims, profile) ==
    LET rank == Len(layout.dims)
        w == SizeInBytes(s.dtype)
        dst_el == Product(SubSeq(layout.dims, 1, rank - 1))
    IN IF Len(sum_dims) = 1 /\ rank = 0 /\ profile = "debug"
       THEN Ret(m, "Panic", "attempt to subtract with overflow", 0, 0, 0, FALSE)
       ELSE IF ~(/\ Len(sum_dims) = 1
                 /\ rank > 0
                 /\ sum_dims[1] = rank - 1
                 /\ IsContiguous(layout)
                 /\ layout.start_offset = 0
                 /\ layout.stride[sum_dims[1] + 1] = 1)
       THEN Ret(m, "Err", "Msg", 0, 0, 0, FALSE)
       ELSE IF ~(op \in ReduceKernels /\ s.dtype = "F32")
       THEN Ret(m, "Err", "Msg", 0, 0, 0, FALSE)
       ELSE IF CheckEmpty(op) /\ ElemCount(layout.dims) = 0
       THEN Ret(m, "Err", "EmptyTensor", 0, 0, 0, FALSE)
       ELSE IF ReturnIndex(op)
       THEN Ret(m, "Err", "Msg", 0, 0, 0, FALSE)
       ELSE LET nb == NewBuffer(m, dst_el, s.dtype)
                c == CallReduceContiguous("reduce", w, ElemCount(layout.dims), dst_el,
                                          s.buffer, nb.id)
                m1 == MetalStorageNew(Encode(nb.m, c), nb.id, s.dtype)
            IN Ret(m1, "Ok", "", Len(m1.stor), 1, 1, FALSE)

\* The dtypes copy_strided_src has a strided copy kernel for.
CopyKernels == {"F32", "F16", "BF16", "U32"}

\* MetalStorage::copy_strided_src. The contiguous branch blits
\* `self.buffer.length() - src_offset` bytes: the rest of the source buffer.
CopyStridedSrc(m, s, dst, dst_offset, src_l) ==
    LET w == SizeInBytes(s.dtype)
        length == m.pool[s.buffer].size
    IN IF IsContiguous(src_l)
       THEN LET src_offset == src_l.start_offset * w
                c == BlitCopyFromBuffer(w, s.buffer, <<>>, src_offset, dst.buffer,
                                        dst_offset * SizeInBytes(dst.dtype),
                                        length - src_offset)
            IN Ret(Commit(Encode(m, c)), "Ok", "", 0, 0, 1, TRUE)
       ELSE IF ElemCount(src_l.dims) = 0 THEN Ret(m, "Ok", "", 0, 0, 0, FALSE)
       ELSE IF s.dtype \notin CopyKernels THEN Ret(m, "Err", "Msg", 0, 0, 0, FALSE)
       ELSE LET c == CallUnaryStrided("", w, src_l.dims, s.buffer, src_l.stride,
                                      src_l.start_offset * w, dst.buffer,
                                      dst_offset * SizeInBytes(dst.dtype))
            IN Ret(Commit(Encode(m, c)), "Ok", "", 0, 0, 1, TRUE)

\* ------------------------------------------------- Metal: the state machine
\* The machine state the primitives work on.
Machine ==
    [pool |-> mPool, stor |-> mStor, cmds |-> mCmds, cb |-> mCbStatus, queue |-> mQueue]

NoLayout == [dims |-> <<>>, stride |-> <<>>, start_offset |-> 0]

\* The record of a call: its arguments, what it returned, what it did on the
\* way, the settled contents of every buffer before it and the number of
\* commands the device had not run before it; `pc` is "waiting" while the
\* caller is blocked inside the call, `host` is what a readback returned.
Call(op, f, src, layout, rhs, rhs_layout, bmnk, dst, dst_offset, r) ==
    [op |-> op, f |-> f, src |-> src, layout |-> layout, rhs |-> rhs,
     rhs_layout |-> rhs_layout, bmnk |-> bmnk, sum_dims |-> <<>>,
     dst |-> dst, dst_offset |-> dst_offset,
     status |-> r.status, err |-> r.err, msg |-> r.msg, out |-> r.out,
     allocs |-> r.allocs, encoded |-> r.encoded, committed |-> r.committed,
     pre |-> Settled(Machine, mBuild.oob),
     pending |-> Len(mQueue) + Len(mCmds),
     pc |-> "returned", host |-> <<>>, unread |-> 0]

NoCall ==
    [op |-> "none", f |-> "", src |-> 0, layout |-> NoLayout, rhs |-> 0,
     rhs_layout |-> NoLayout, bmnk |-> <<0, 0, 0, 0>>, sum_dims |-> <<>>,
     dst |-> 0, dst_offset |-> 0,
     status |-> "Ok", err |-> "", msg |-> <<>>, out |-> 0, allocs |-> 0,
     encoded |-> 0, committed |-> FALSE, pre |-> <<>>, pending |-> 0,
     pc |-> "returned", host |-> <<>>, unread |-> 0]

\* The shapes with exactly n elements: the vector, the shapes of rank 2 to
\* MetalMaxRank with every size at least 2, and the scalar when n = 1.
MetalShapes(n) ==
    {<<n>>}
    \cup (IF n = 1 THEN {<<>>} ELSE {})
    \cup UNION {{s \in [1..r -> 2..n] : Product(s) = n} : r \in 2..MetalMaxRank}

\* The layouts under which a buffer of n elements is viewed: contiguous,
\* transposed, and the contiguous one narrowed by one on one dimension, at
\* its start or at its end.
MetalViews(n) ==
    LET base == {LayoutContiguous(s) : s \in MetalShapes(n)}
        tr == {LayoutTranspose(l, 0, 1) : l \in {b \in base : Len(b.dims) >= 2}}
        nar == UNION {{LayoutNarrow(l, d, st, l.dims[d + 1] - 1) : st \in 0..1} :
                      <<l, d>> \in {x \in base \X (0..(MetalMaxRank - 1)) :
                                      /\ x[2] < Len(x[1].dims)
                                      /\ x[1].dims[x[2] + 1] >= 2}}
    IN base \cup tr \cup nar

\* The views of a buffer of n elements with no element: the contiguous
\* layouts narrowed to length 0 on one dimension.
EmptyViews(n) ==
    {LayoutNarrow(x[1], x[2], 0, 0) :
        x \in {y \in {LayoutContiguous(sh) : sh \in MetalShapes(n)} \X (0..(MetalMaxRank - 1)) :
                  y[2] < Len(y[1].dims)}}

\* The sets of dimensions a reduction is asked for.
SumDims ==
    {<<>>} \cup {<<d>> : d \in 0..(MetalMaxRank - 1)}
    \cup {<<0, d>> : d \in 1..(MetalMaxRank - 1)}

\* The dtypes of the data the caller uploads.
UploadDTypes == {"F32", "U8"}

\* The storages the caller still holds.
Live == {i \in 1..Len(mStor) : mStor[i].live}

\* The number of elements of the buffer of storage i.
BufElems(i) == Len(mPool[mStor[i].buffer].data)

MetalInit ==
    /\ mPool = <<>>
    /\ mStor = <<>>
    /\ mCmds = <<>>
    /\ mCbStatus = "NotEnqueued"
    /\ mQueue = <<>>
    /\ mBuild \in [profile : {"debug", "release"}, oob : {"clip", "fault"}]
    /\ mLast = NoCall
    /\ mOps = 0
    /\ CatIdle
    /\ StorageIdle
    /\ ParIdle
    /\ SearchIdle
    /\ ThreadsIdle

\* A primitive may be called: the process has not panicked and the caller
\* is not blocked inside a call.
CanCall == mOps < MaxOps /\ mLast.status # "Panic" /\ mLast.pc = "returned"

\* The state after a primitive call that returned r.
Returned(r, call) ==
    /\ mPool' = r.m.pool
    /\ mStor' = r.m.stor
    /\ mCmds' = r.m.cmds
    /\ mCbStatus' = r.m.cb
    /\ mQueue' = r.m.queue
    /\ mLast' = call
    /\ mOps' = mOps + 1
    /\ UNCHANGED <<mBuild, catVars, stVars, parVars, ssVars, bs, kn, lk>>

\* device.storage_from_cpu_storage(&CpuStorage)
MStorageFromCpuStorage ==
    /\ CanCall
    /\ \E n \in 1..MaxElems : \E dtype \in UploadDTypes :
        LET data == [j \in 1..n |-> <<Len(mStor) + 1, j>>]
            r == StorageFromCpuStorage(Machine, data, dtype)
        IN Returned(r, Call("storage_from_cpu_storage", "", 0, LayoutContiguous(<<n>>),
                            0, NoLayout, <<0, 0, 0, 0>>, 0, 0, r))

\* device.zeros_impl(shape, dtype)
MZerosImpl ==
    /\ CanCall
    /\ \E n \in 1..MaxElems : \E dtype \in UploadDTypes :
        LET r == ZerosImpl(Machine, <<n>>, dtype)
        IN Returned(r, Call("zeros_impl", "", 0, LayoutContiguous(<<n>>),
                            0, NoLayout, <<0, 0, 0, 0>>, 0, 0, r))

\* storage.unary_impl::<B>(layout)
MUnaryImpl ==
    /\ CanCall
    /\ \E i \in Live : \E l \in MetalViews(BufElems(i)) : \E B \in {"ucos", "uabs"} :
        LET r == UnaryImpl(Machine, mStor[i], l, B)
        IN Returned(r, Call("unary_impl", B, i, l, 0, NoLayout, <<0, 0, 0, 0>>, 0, 0, r))

\* storage.to_dtype(layout, dtype)
MToDtype ==
    /\ CanCall
    /\ \E i \in Live : \E l \in MetalViews(BufElems(i)) : \E dtype \in {"F16", "F32"} :
        LET r == ToDtype(Machine, mStor[i], l, dtype)
        IN Returned(r, Call("to_dtype", "cast", i, l, 0, NoLayout, <<0, 0, 0, 0>>, 0, 0, r))

\* (b, m, n, k) of a matmul of two layouts: taken from the shapes when both
\* have rank 2 or more.
Bmnk(l, r) ==
    IF Len(l.dims) >= 2 /\ Len(r.dims) >= 2
    THEN <<1, l.dims[Len(l.dims) - 1], r.dims[Len(r.dims)], l.dims[Len(l.dims)]>>
    ELSE <<1, 1, 1, 1>>

\* storage.matmul(rhs, (b, m, n, k), lhs_l, rhs_l), on operands of one dtype
\* (Storage::matmul_impl has checked it) whose inner sizes agree.
MMatmul ==
    /\ CanCall
    /\ \E i \in Live : \E j \in Live :
        /\ mStor[i].dtype = mStor[j].dtype
        /\ \E l \in MetalViews(BufElems(i)) : \E r \in MetalViews(BufElems(j)) :
            /\ (Len(l.dims) >= 2 /\ Len(r.dims) >= 2) => l.dims[2] = r.dims[1]
            /\ LET res == Matmul(Machine, mStor[i], mStor[j], Bmnk(l, r), l, r)
               IN Returned(res, Call("matmul", "matmul", i, l, j, r, Bmnk(l, r), 0, 0, res))

\* storage.reduce_op(op, layout, sum_dims)
MReduceOp ==
    /\ CanCall
    /\ \E i \in Live : \E l \in MetalViews(BufElems(i)) \cup EmptyViews(BufElems(i)) :
       \E op \in {"Sum", "Min", "ArgMax"} :
       \E sum_dims \in SumDims :
        LET r == ReduceOp(Machine, mStor[i], op, l, sum_dims, mBuild.profile)
        IN Returned(r, [Call("reduce_op", op, i, l, 0, NoLayout,
                             <<Len(sum_dims), 0, 0, 0>>, 0, 0, r)
                        EXCEPT !.sum_dims = sum_dims])

\* src.copy_strided_src(&mut dst, dst_offset, src_l): dst is another buffer
\* of the same dtype with room for the elements of src_l at dst_offset.
MCopyStridedSrc ==
    /\ CanCall
    /\ \E i \in Live : \E j \in Live :
        /\ mStor[i].buffer # mStor[j].buffer
        /\ mStor[i].dtype = mStor[j].dtype
        /\ \E l \in MetalViews(BufElems(i)) :
           \E dst_offset \in 0..(BufElems(j) - ElemCount(l.dims)) :
            LET r == CopyStridedSrc(Machine, mStor[i], mStor[j], dst_offset, l)
            IN Returned(r, Call("copy_strided_src", "", i, l, 0, NoLayout,
                                <<0, 0, 0, 0>>, j, dst_offset, r))

\* storage.powf(..), storage.elu(..), .., storage.index_add(..)
MUnsupported ==
    /\ CanCall
    /\ Live # {}
    /\ \E op \in UnsupportedOps :
        LET r == Unsupported(Machine, op)
        IN Returned(r, Call("unsupported", op, 0, NoLayout, 0, NoLayout,
                            <<0, 0, 0, 0>>, 0, 0, r))

\* storage.to_cpu_storage(), up to the point where the caller blocks in
\* wait_until_completed.
MToCpuStorage ==
    /\ CanCall
    /\ \E i \in Live :
        LET r == ToCpuStorage(Machine, mStor[i])
        IN Returned(r, [Call("to_cpu_storage", "", i, NoLayout, 0, NoLayout,
                             <<0, 0, 0, 0>>, 0, 0, r)
                        EXCEPT !.pc = IF r.status = "Ok" THEN "waiting" ELSE "returned"])

\* The wait of to_cpu_storage returns: a new command buffer is installed,
\* the host reads the storage's buffer, the staging buffer is released.
MToCpuRead ==
    /\ mLast.op = "to_cpu_storage"
    /\ mLast.pc = "waiting"
    /\ WaitReturns(Machine)
    /\ \E host \in HostReads(mPool, mStor[mLast.src].buffer) :
        mLast' = [mLast EXCEPT !.pc = "returned", !.host = host,
                               !.unread = Len(mQueue) + Len(mCmds)]
    /\ mCmds' = WaitRotate(Machine).cmds
    /\ mCbStatus' = WaitRotate(Machine).cb
    /\ UNCHANGED <<mPool, mStor, mQueue, mBuild, mOps, catVars, stVars, parVars, ssVars, bs, kn, lk>>

\* The caller drops a MetalStorage: its buffer's strong count goes down.
MDropStorage ==
    /\ CanCall
    /\ \E i \in Live : mStor' = [mStor EXCEPT ![i].live = FALSE]
    /\ mOps' = mOps + 1
    /\ UNCHANGED <<mPool, mCmds, mCbStatus, mQueue, mBuild, mLast, catVars, stVars, parVars, ssVars, bs, kn, lk>>

\* The device runs the oldest committed command.
MGpuExecute ==
    /\ mQueue # <<>>
    /\ mPool' = Exec(mPool, Head(mQueue), mBuild.oob)
    /\ mQueue' = Tail(mQueue)
    /\ UNCHANGED <<mStor, mCmds, mCbStatus, mBuild, mLast, mOps, catVars, stVars, parVars, ssVars, bs, kn, lk>>

MetalNext ==
    \/ MStorageFromCpuStorage
    \/ MZerosImpl
    \/ MUnaryImpl
    \/ MToDtype
    \/ MMatmul
    \/ MReduceOp
    \/ MCopyStridedSrc
    \/ MUnsupported
    \/ MToCpuStorage
    \/ MToCpuRead
    \/ MDropStorage
    \/ MGpuExecute

SpecMetal == MetalInit /\ [][MetalNext]_vars

\* ------------------------------------------------ claims on the Metal backend
\* The contiguous zero-offset copy of the view `l` of a buffer's elements:
\* the elements of the view in row-major order of its shape.
Materialize(data, l) ==
    [i \in 1..ElemCount(l.dims) |-> data[StridedIndex(l, i - 1) + 1]]

\* C6: once the work of a successful copy_strided_src(dst, dst_offset,
\* src_layout) has run, the dst positions dst_offset .. dst_offset +
\* elem_count - 1 hold the elements addressed by src_layout in row-major
\* order, and every other element of dst is what it was before the call,
\* for contiguous source layouts (partial views included) and strided ones.
C6_CopyWritesExactly ==
    (mLast.op = "copy_strided_src" /\ mLast.status = "Ok") =>
        LET src == mStor[mLast.src].buffer
            dst == mStor[mLast.dst].buffer
            elems == Materialize(mLast.pre[src], mLast.layout)
            now == Settled(Machine, mBuild.oob)
        IN \A p \in 0..(Len(now[dst]) - 1) :
            now[dst][p + 1] =
                IF p >= mLast.dst_offset /\ p < mLast.dst_offset + Len(elems)
                THEN elems[p - mLast.dst_offset + 1]
                ELSE mLast.pre[dst][p + 1]

\* C8: once the work of a successful unary_impl or to_dtype on a view has
\* run, the output holds, element by element in row-major order of the
\* view's shape, what the primitive computes on the contiguous zero-offset
\* copy of that view.
C8_StridedEqualsContiguous ==
    (mLast.op \in {"unary_impl", "to_dtype"} /\ mLast.status = "Ok") =>
        LET src == mStor[mLast.src].buffer
            out == mStor[mLast.out].buffer
            copy == Materialize(mLast.pre[src], mLast.layout)
            now == Settled(Machine, mBuild.oob)
        IN \A i \in 1..Len(copy) : now[out][i] = Apply(mLast.f, copy[i])

\* The last two strides of a layout of rank 2 or more.
LastTwoStrides(l) == <<l.stride[Len(l.stride) - 1], l.stride[Len(l.stride)]>>

\* The stride pairs the claim lets matmul accept for (b, m, n, k).
ClaimAccepted(lhs_l, rhs_l, bmnk) ==
    /\ LastTwoStrides(lhs_l) \in {<<bmnk[4], 1>>, <<1, bmnk[2]>>}
    /\ LastTwoStrides(rhs_l) \in {<<bmnk[3], 1>>, <<1, bmnk[4]>>}

\* C9: a matmul on operands of rank 2 or more succeeds only if the left
\* operand's last two strides are (k, 1) or (1, m) and the right operand's
\* are (n, 1) or (1, k); for any other stride pair it returns
\* MatMulNonContiguous, having taken no buffer from the pool and encoded
\* and committed nothing.
C9_MatmulStridePatterns ==
    (/\ mLast.op = "matmul"
     /\ Len(mLast.layout.stride) >= 2
     /\ Len(mLast.rhs_layout.stride) >= 2) =>
        /\ mLast.status = "Ok" =>
            ClaimAccepted(mLast.layout, mLast.rhs_layout, mLast.bmnk)
        /\ ~ClaimAccepted(mLast.layout, mLast.rhs_layout, mLast.bmnk) =>
            /\ mLast.status = "Err"
            /\ mLast.err = "MatMulNonContiguous"
            /\ mLast.allocs = 0
            /\ mLast.encoded = 0
            /\ ~mLast.committed

\* C10: no Metal primitive panics, whatever the dtype, rank and layout it is
\* called with: every call returns Ok or a typed Err.
C10_NeverPanics == mLast.status \in {"Ok", "Err"}


\* C11: every primitive the Metal backend does not implement (powf, elu,
\* cmp, conv1d, conv2d, conv_transpose1d, conv_transpose2d, avg_pool2d,
\* max_pool2d, upsample_nearest1d/2d, gather, scatter_add, index_add)
\* returns the UnsupportedOp error carrying the name of the operation.
C11_UnsupportedOpNamed ==
    mLast.op = "unsupported" =>
        /\ mLast.status = "Err"
        /\ mLast.err = "UnsupportedOp"
        /\ mLast.f \in {mLast.msg[w] : w \in 1..Len(mLast.msg)}

\* The reduced dimensions the claims speak of: a non-empty list of distinct
\* dimensions of the layout.
ValidSumDims(l, sum_dims) ==
    /\ sum_dims # <<>>
    /\ \A a \in 1..Len(sum_dims) : sum_dims[a] < Len(l.dims)
    /\ \A a, b \in 1..Len(sum_dims) : a # b => sum_dims[a] # sum_dims[b]

\* The number of elements a reduction of the layout over sum_dims has.
ReducedCount(l, sum_dims) ==
    Product([d \in 1..Len(l.dims) |->
                IF \E a \in 1..Len(sum_dims) : sum_dims[a] = d - 1 THEN 1 ELSE l.dims[d]])

\* C12: reduce_op (here the sum of an F32 storage) returns the reduction for
\* any set of reduced dimensions and any input layout, not only for a
\* single trailing dimension of a contiguous zero-offset layout.
C12_ReduceAnyDims ==
    (/\ mLast.op = "reduce_op"
     /\ mLast.f = "Sum"
     /\ mStor[mLast.src].dtype = "F32"
     /\ ValidSumDims(mLast.layout, mLast.sum_dims)) =>
        /\ mLast.status = "Ok"
        /\ Len(mPool[mStor[mLast.out].buffer].data)
             = ReducedCount(mLast.layout, mLast.sum_dims)

\* The layouts and dimension lists reduce_op has a kernel path for: one
\* trailing dimension of a contiguous zero-offset layout.
LastDimReduce(l, sum_dims) ==
    /\ Len(sum_dims) = 1
    /\ Len(l.dims) > 0
    /\ sum_dims[1] = Len(l.dims) - 1
    /\ IsContiguous(l)
    /\ l.start_offset = 0
    /\ l.stride[Len(l.dims)] = 1

\* A reduce_op call on an F32 storage that reaches the kernel selection.
ReduceCall(ops) ==
    /\ mLast.op = "reduce_op"
    /\ mLast.f \in ops
    /\ mStor[mLast.src].dtype = "F32"
    /\ LastDimReduce(mLast.layout, mLast.sum_dims)

\* The sum over an empty extent succeeds and every element of the result is 0.
SumOverEmptyIsZero ==
    (ReduceCall({"Sum"}) /\ mLast.layout.dims[Len(mLast.layout.dims)] = 0) =>
        /\ mLast.status = "Ok"
        /\ \A v \in {Settled(Machine, mBuild.oob)[mStor[mLast.out].buffer][j] :
                       j \in 1..Len(mPool[mStor[mLast.out].buffer].data)} : v = Zero

C14_ZerosAreZero ==
    (mLast.op = "zeros_impl" /\ mLast.status = "Ok") =>
        \A j \in 1..Len(mPool[mStor[mLast.out].buffer].data) :
            Settled(Machine, mBuild.oob)[mStor[mLast.out].buffer][j] = Zero

\* C15: to_cpu_storage reads the data back only after every piece of work
\* encoded before the call, and its own copy into the staging buffer, has
\* been committed and has run: at the read no command is left in the active
\* command buffer or in the queue, and the storage's buffer holds what the
\* work encoded before the call leaves in it.
C15_ReadbackAfterCompletion ==
    (mLast.op = "to_cpu_storage" /\ mLast.status = "Ok" /\ mLast.pc = "returned") =>
        /\ mLast.unread = 0
        /\ mCmds = <<>> /\ mQueue = <<>>
        /\ mPool[mStor[mLast.src].buffer].data = mLast.pre[mStor[mLast.src].buffer]

\* A readback has returned that was called while the device had work of
\* earlier calls left, part of it not committed.
C15_Witness ==
    /\ mLast.op = "to_cpu_storage"
    /\ mLast.pc = "returned"
    /\ mLast.pending >= 2
    /\ mLast.host = mLast.pre[mStor[mLast.src].buffer]

\* C16: between operations the active command buffer is one that has not
\* been committed, and after a call that committed, all the work appended
\* so far has been handed to the device: none is left in the active buffer.
C16_ActiveBufferUncommitted ==
    mLast.pc = "returned" =>
        /\ mCbStatus = "NotEnqueued"
        /\ mLast.committed => mCmds = <<>>

\* A call has committed work that earlier calls had left in the active
\* command buffer, and another call has encoded work after it.
C16_Witness ==
    /\ mLast.pc = "returned"
    /\ ~mLast.committed
    /\ mLast.encoded = 1
    /\ Len(mCmds) = 1
    /\ mLast.pending >= 2

\* C17: a buffer handed out by new_buffer is referenced by no other live
\* storage, and the contents of the storages the caller holds, other than
\* the output of the call and the destination of a copy, are what they were
\* before the call.
C17_NoAliasing ==
    (mLast.status = "Ok" /\ mLast.pc = "returned" /\ mLast.op # "none") =>
        /\ mLast.out # 0 =>
              \A i \in Live \ {mLast.out} : mStor[i].buffer # mStor[mLast.out].buffer
        /\ \A i \in Live \ {mLast.out, mLast.dst} :
              mStor[i].buffer <= Len(mLast.pre) =>
                 Settled(Machine, mBuild.oob)[mStor[i].buffer] = mLast.pre[mStor[i].buffer]

\* A call has been handed a recycled buffer of the pool while the caller
\* holds another storage.
C17_Witness ==
    /\ mLast.status = "Ok"
    /\ mLast.out # 0
    /\ mLast.allocs = 1
    /\ mStor[mLast.out].buffer <= Len(mLast.pre)
    /\ mLast.pre[mStor[mLast.out].buffer] # Settled(Machine, mBuild.oob)[mStor[mLast.out].buffer]
    /\ Live \ {mLast.out} # {}

\* C22: _new_buffer(size, option) allocates fresh device memory only when
\* the pool holds no unreferenced entry under the key (size, option), and
\* otherwise returns such an entry; the buffer it returns has exactly the
\* requested size and options; every freshly allocated buffer is in the
\* pool under its key, and the keys of the pool's entries never change.
C22_NewBufferPooled ==
    /\ [][LET n == Len(mPool)
          IN /\ Len(mPool') \in {n, n + 1}
             /\ \A i \in 1..n :
                   mPool'[i].size = mPool[i].size /\ mPool'[i].option = mPool[i].option
             /\ Len(mPool') = n + 1 =>
                   \A i \in 1..n :
                      ~(/\ mPool[i].size = mPool'[n + 1].size
                        /\ mPool[i].option = mPool'[n + 1].option
                        /\ StrongCount(mStor, i) = 1)
             /\ (Len(mPool') = n /\ Len(mStor') > Len(mStor)) =>
                   /\ mStor'[Len(mStor')].buffer <= n
                   /\ StrongCount(mStor, mStor'[Len(mStor')].buffer) = 1]_vars
    /\ []((/\ mLast.op \in {"zeros_impl", "storage_from_cpu_storage", "unary_impl", "to_dtype"}
           /\ mLast.status = "Ok") =>
             /\ mPool[mStor[mLast.out].buffer].option = "Private"
             /\ mPool[mStor[mLast.out].buffer].size
                  = ElemCount(mLast.layout.dims) * SizeInBytes(mStor[mLast.out].dtype))
    /\ []((mLast.op = "to_cpu_storage" /\ mLast.status = "Ok") =>
             \E b \in 1..Len(mPool) :
                 /\ mPool[b].option = "Managed"
                 /\ mPool[b].size = mPool[mStor[mLast.src].buffer].size)

\* zeros_impl has allocated a new private buffer although the pool holds an
\* unreferenced managed buffer of the same size.
C22_Witness ==
    /\ mLast.op = "zeros_impl"
    /\ mLast.status = "Ok"
    /\ mStor[mLast.out].buffer = Len(mPool)
    /\ Len(mPool) > Len(mLast.pre)
    /\ \E i \in 1..Len(mLast.pre) :
          /\ mPool[i].option = "Managed"
          /\ mPool[i].size = mPool[Len(mPool)].size
          /\ StrongCount(mStor, i) = 1

\* A call of unary_impl or to_dtype that returned an error for want of a
\* kernel.
KernelError ==
    /\ mLast.op \in {"unary_impl", "to_dtype"}
    /\ mLast.status = "Err"

\* C26 as stated: a Metal primitive that returns an error (no kernel for the
\* dtype or the kernel name) leaves the device state as it found it: no
\* buffer has been added to the reuse pool and nothing has been appended to
\* or committed on the command buffer.
C26_ErrorLeavesDevice ==
    KernelError =>
        /\ Len(mPool) = Len(mLast.pre)
        /\ mLast.encoded = 0
        /\ ~mLast.committed

\* C26 as the code has it: a Metal primitive that returns an error for want
\* of a kernel has appended nothing to the command buffer and committed
\* nothing, and hands no storage to the caller; it has requested its output
\* buffer before, so the pool has grown by one buffer when it held no
\* unreferenced buffer of the key, and that buffer is referenced by no
\* storage.
C26_ErrorKeepsBuffer ==
    KernelError =>
        /\ mLast.encoded = 0
        /\ ~mLast.committed
        /\ Len(mQueue) + Len(mCmds) <= mLast.pending
        /\ mLast.out = 0
        /\ mLast.allocs = 1
        /\ Len(mPool) \in {Len(mLast.pre), Len(mLast.pre) + 1}
        /\ Len(mPool) = Len(mLast.pre) + 1 => StrongCount(mStor, Len(mPool)) = 1

\* unary_impl has returned an error and left a new buffer in the pool.
C26_Witness ==
    /\ mLast.op = "unary_impl"
    /\ mLast.status = "Err"
    /\ Len(mPool) = Len(mLast.pre) + 1
    /\ mCmds # <<>>

\* C28: the element values returned by to_cpu_storage are read from a
\* host-visible (managed) buffer, never from the device-private buffer of
\* the storage, and they equal the storage's contents at the time of the
\* call (the buffer the readback reads is the one of MToCpuRead).
C28_ReadsStagingBuffer ==
    (mLast.op = "to_cpu_storage" /\ mLast.status = "Ok" /\ mLast.pc = "returned") =>
        /\ mLast.host = mLast.pre[mStor[mLast.src].buffer]
        /\ mPool[mStor[mLast.src].buffer].option = "Managed"
\* ------------------------------------------------- fork-join on the CPU
\* (candle-core/src/cpu/kernels.rs)
MaxThreads == 3
MaxUp == 3

\* The arguments func can be called with in the model.
ParIndices == 0..(IF MaxThreads > MaxUp THEN MaxThreads ELSE MaxUp)

\* The calls of the model: par_for_each(n_threads, func) and
\* par_range(lo, up, n_threads, func).
ParCalls ==
    [fn : {"par_for_each"}, lo : {0}, up : {0}, n_threads : 0..MaxThreads]
    \cup [fn : {"par_range"}, lo : 0..MaxUp, up : 0..MaxUp, n_threads : 0..MaxThreads]

\* No call of func so far: per argument, how often func was entered and
\* left, and how often it was entered on the calling thread.
EmptyLog ==
    [entered |-> [i \in ParIndices |-> 0], left |-> [i \in ParIndices |-> 0],
     inline |-> [i \in ParIndices |-> 0]]

\* func(i) is entered.
Enter(log, i) == [log EXCEPT !.entered[i] = @ + 1]

\* func(i) returns.
Leave(log, i) == [log EXCEPT !.left[i] = @ + 1]

\* The first index of `(thread_idx..up).step_by(n_threads)`.
FirstIndex(call, thread_idx) == thread_idx

\* A scope that does not wait for its tasks.
ScopeJoined_NoWait(tasks) == TRUE

\* rayon::scope returns once every task spawned in it has finished.
ScopeJoined(tasks) == \A t \in 1..Len(tasks) : tasks[t].pc = "done"

ParInit ==
    /\ parCall \in ParCalls
    /\ parPc = "call"
    /\ parIdx = 0
    /\ parTasks = <<>>
    /\ parLog = EmptyLog
    /\ CatIdle
    /\ StorageIdle
    /\ MetalIdle
    /\ SearchIdle
    /\ ThreadsIdle

\* `if n_threads == 1 { .. } else { rayon::scope(..) }`
ParEnter ==
    /\ parPc = "call"
    /\ IF parCall.n_threads = 1
       THEN parPc' = "inline" /\ parIdx' = parCall.lo
       ELSE parPc' = "scope" /\ parIdx' = 0
    /\ UNCHANGED <<parCall, parTasks, parLog, catVars, stVars, metalVars, ssVars, bs, kn, lk>>

\* n_threads == 1: the calling thread enters func(0) of par_for_each, or
\* func(i) of the loop `for i in lo..up` of par_range.
ParInlineCall ==
    /\ parPc = "inline"
    /\ parCall.fn = "par_range" => parIdx < parCall.up
    /\ parLog' = [Enter(parLog, parIdx) EXCEPT !.inline[parIdx] = @ + 1]
    /\ parPc' = "inline_func"
    /\ UNCHANGED <<parCall, parIdx, parTasks, catVars, stVars, metalVars, ssVars, bs, kn, lk>>

\* func returns on the calling thread: par_for_each returns, par_range
\* goes on with the next index.
ParInlineReturn ==
    /\ parPc = "inline_func"
    /\ parLog' = Leave(parLog, parIdx)
    /\ IF parCall.fn = "par_for_each"
       THEN parPc' = "returned" /\ parIdx' = parIdx
       ELSE parPc' = "inline" /\ parIdx' = parIdx + 1
    /\ UNCHANGED <<parCall, parTasks, catVars, stVars, metalVars, ssVars, bs, kn, lk>>

\* The loop `for i in lo..up` of par_range is over.
ParInlineDone ==
    /\ parPc = "inline"
    /\ parCall.fn = "par_range"
    /\ parIdx >= parCall.up
    /\ parPc' = "returned"
    /\ UNCHANGED <<parCall, parIdx, parTasks, parLog, catVars, stVars, metalVars, ssVars, bs, kn, lk>>

\* `s.spawn(..)` for thread_idx = parIdx in `for thread_idx in 0..n_threads`.
ParSpawn ==
    /\ parPc = "scope"
    /\ parIdx < parCall.n_threads
    /\ parTasks' = Append(parTasks, [pc |-> "loop", i |-> FirstIndex(parCall, parIdx)])
    /\ parIdx' = parIdx + 1
    /\ UNCHANGED <<parCall, parPc, parLog, catVars, stVars, metalVars, ssVars, bs, kn, lk>>

\* The closure of the scope returns: the caller waits for the tasks.
ParScopeEnd ==
    /\ parPc = "scope"
    /\ parIdx >= parCall.n_threads
    /\ parPc' = "join"
    /\ UNCHANGED <<parCall, parIdx, parTasks, parLog, catVars, stVars, metalVars, ssVars, bs, kn, lk>>

\* A worker enters func in a spawned task: func(thread_idx) of
\* par_for_each, func(i) of the loop of par_range.
ParTaskCall ==
    /\ \E t \in 1..Len(parTasks) :
        /\ parTasks[t].pc = "loop"
        /\ parCall.fn = "par_range" => parTasks[t].i < parCall.up
        /\ parLog' = Enter(parLog, parTasks[t].i)
        /\ parTasks' = [parTasks EXCEPT ![t].pc = "func"]
    /\ UNCHANGED <<parCall, parPc, parIdx, catVars, stVars, metalVars, ssVars, bs, kn, lk>>

\* func returns in a spawned task: the task of par_for_each is over, the
\* task of par_range steps by n_threads.
ParTaskReturn ==
    /\ \E t \in 1..Len(parTasks) :
        /\ parTasks[t].pc = "func"
        /\ parLog' = Leave(parLog, parTasks[t].i)
        /\ parTasks' = IF parCall.fn = "par_for_each"
                       THEN [parTasks EXCEPT ![t].pc = "done"]
                       ELSE [parTasks EXCEPT ![t].pc = "loop",
                                             ![t].i = @ + parCall.n_threads]
    /\ UNCHANGED <<parCall, parPc, parIdx, catVars, stVars, metalVars, ssVars, bs, kn, lk>>

\* The loop of a spawned task of par_range is over.
ParTaskDone ==
    /\ parCall.fn = "par_range"
    /\ \E t \in 1..Len(parTasks) :
        /\ parTasks[t].pc = "loop"
        /\ parTasks[t].i >= parCall.up
        /\ parTasks' = [parTasks EXCEPT ![t].pc = "done"]
    /\ UNCHANGED <<parCall, parPc, parIdx, parLog, catVars, stVars, metalVars, ssVars, bs, kn, lk>>

\* rayon::scope returns, and with it the function.
ParJoin ==
    /\ parPc = "join"
    /\ ScopeJoined(parTasks)
    /\ parPc' = "returned"
    /\ UNCHANGED <<parCall, parIdx, parTasks, parLog, catVars, stVars, metalVars, ssVars, bs, kn, lk>>

ParNext ==
    \/ ParEnter
    \/ ParInlineCall
    \/ ParInlineReturn
    \/ ParInlineDone
    \/ ParSpawn
    \/ ParScopeEnd
    \/ ParTaskCall
    \/ ParTaskReturn
    \/ ParTaskDone
    \/ ParJoin

SpecPar == ParInit /\ [][ParNext]_vars

\* C18: par_range(lo, up, n_threads, func) calls func exactly once for
\* every index i with lo <= i < up and for no index outside that range, for
\* every n_threads >= 1, so that the indices visited with n_threads > 1 are
\* those visited inline with n_threads == 1.
C18_ParRangeVisitsRange ==
    (parCall.fn = "par_range" /\ parCall.n_threads >= 1 /\ parPc = "returned") =>
        \A i \in ParIndices :
            parLog.entered[i] = IF parCall.lo <= i /\ i < parCall.up THEN 1 ELSE 0

\* C19: par_for_each(n_threads, func) has run func(t) exactly once for each
\* t in 0..n_threads, and every one of these calls has returned, when it
\* returns to its caller; with n_threads == 1 it runs func(0) on the calling
\* thread and spawns no task.
C19_ForkJoin ==
    (parCall.fn = "par_for_each" /\ parPc = "returned") =>
        /\ \A t \in ParIndices :
              /\ parLog.entered[t] = IF t < parCall.n_threads THEN 1 ELSE 0
              /\ parLog.left[t] = parLog.entered[t]
        /\ parCall.n_threads = 1 => parTasks = <<>> /\ parLog.inline[0] = 1
        /\ parCall.n_threads # 1 => \A t \in ParIndices : parLog.inline[t] = 0

\* par_for_each has returned from a scope of several tasks.
C19_Witness ==
    /\ parCall.fn = "par_for_each"
    /\ parPc = "returned"
    /\ parCall.n_threads >= 2
    /\ Len(parTasks) = parCall.n_threads

\* ------------------------------------------------------- search-sorted
\* (candle-examples/examples/search-sorted/search_sorted.rs)
MaxVal == 2
MaxInner == 2
MaxRows == 2

\* A comparison that ignores `right`.
Pred_LeftOnly(mid_val, value, right) == ~(mid_val >= value)

\* `pred` of binary_search.
Pred(mid_val, value, right) ==
    IF right THEN ~(mid_val > value) ELSE ~(mid_val >= value)

\* The `while start < end` loop of binary_search.
RECURSIVE BinarySearchLoop(_, _, _, _, _)
BinarySearchLoop(slice, value, right, start, end) ==
    IF start < end
    THEN LET mid == start + ((end - start) \div 2)
         IN IF Pred(slice[mid + 1], value, right)
            THEN BinarySearchLoop(slice, value, right, mid + 1, end)
            ELSE BinarySearchLoop(slice, value, right, start, mid)
    ELSE start

\* binary_search(slice, value, right)
BinarySearch(slice, value, right) == BinarySearchLoop(slice, value, right, 0, Len(slice))

\* `&xs[i * inner..(i + 1) * inner]`
RowSlice(xs, i, inner) == SubSeq(xs, i * inner + 1, (i + 1) * inner)

\* `for v in vals { inner_vec.push(binary_search(slice, v, right)) }`
SearchRow(slice, vals, right) ==
    [j \in 1..Len(vals) |-> BinarySearch(slice, vals[j], right)]

\* `.flatten().collect()` of the rows, in the order of the iterator.
RECURSIVE Flatten(_)
Flatten(rows) == IF rows = <<>> THEN <<>> ELSE Head(rows) \o Flatten(Tail(rows))

\* Sortable::search_sorted for Vec<T>; the assertion on the row counts
\* panics.
SearchSorted(self, innerdim_bd, values, innerdim_val, is_1d_bd, is_1d_vals, right) ==
    IF is_1d_bd /\ ~is_1d_vals
    THEN LET num_val_its == Len(values) \div innerdim_val
         IN [status |-> "Ok",
             data |-> Flatten([i \in 1..num_val_its |->
                         SearchRow(self, RowSlice(values, i - 1, innerdim_val), right)])]
    ELSE IF ~is_1d_bd /\ is_1d_vals
    THEN LET num_it == Len(self) \div innerdim_bd
         IN [status |-> "Ok",
             data |-> Flatten([i \in 1..num_it |->
                         SearchRow(RowSlice(self, i - 1, innerdim_bd), values, right)])]
    ELSE IF Len(self) \div innerdim_bd # Len(values) \div innerdim_val
    THEN [status |-> "Panic", data |-> <<>>]
    ELSE LET num_it == Len(self) \div innerdim_bd
         IN [status |-> "Ok",
             data |-> Flatten([i \in 1..num_it |->
                         SearchRow(RowSlice(self, i - 1, innerdim_bd),
                                   RowSlice(values, i - 1, innerdim_val), right)])]

\* `dims.split_last()`: the dims before the last one.
LeadingDims(dims) == SubSeq(dims, 1, Len(dims) - 1)

\* SearchSorted::cpu_fwd on two contiguous operands of rank 1 or more: the
\* assertion on the leading dims panics, operands of different element
\* types bail.
CpuFwd(c) ==
    LET innerdim_bd == c.ss_dims[Len(c.ss_dims)]
        innerdim_val == c.vals_dims[Len(c.vals_dims)]
        is_1d_bd == Len(c.ss_dims) = 1
        is_1d_vals == Len(c.vals_dims) = 1
        r == SearchSorted(c.ss, innerdim_bd, c.vals, innerdim_val,
                          is_1d_bd, is_1d_vals, c.right)
    IN IF ~is_1d_bd /\ ~is_1d_vals /\ LeadingDims(c.ss_dims) # LeadingDims(c.vals_dims)
       THEN [status |-> "Panic", data |-> <<>>, dims |-> <<>>]
       ELSE IF c.ss_dtype # c.vals_dtype
       THEN [status |-> "Err", data |-> <<>>, dims |-> <<>>]
       ELSE IF r.status # "Ok"
       THEN [status |-> "Panic", data |-> <<>>, dims |-> <<>>]
       ELSE [status |-> "Ok", data |-> r.data,
             dims |-> (IF is_1d_bd THEN LeadingDims(c.vals_dims)
                       ELSE LeadingDims(c.ss_dims)) \o <<innerdim_val>>]

\* A row is sorted.
Sorted(s) == \A i \in 1..(Len(s) - 1) : s[i] <= s[i + 1]

\* The shapes of the operands: a vector, or a matrix of rows.
SearchShapes ==
    {<<k>> : k \in 1..MaxInner} \cup {<<r, k>> : <<r, k>> \in (1..MaxRows) \X (1..MaxInner)}

\* The tensors of a shape, over the values 0..MaxVal.
SearchData(dims) == [1..Product(dims) -> 0..MaxVal]

\* The tensors of a shape every row of which is sorted.
SortedData(dims) ==
    {d \in SearchData(dims) :
        \A i \in 0..((Product(dims) \div dims[Len(dims)]) - 1) :
            Sorted(RowSlice(d, i, dims[Len(dims)]))}

\* The calls of the model.
SearchCalls ==
    UNION {[ss : SortedData(sd), ss_dims : {sd}, ss_dtype : {"U8"},
            vals : SearchData(vd), vals_dims : {vd}, vals_dtype : {"U8", "U32"},
            right : BOOLEAN] : <<sd, vd>> \in SearchShapes \X SearchShapes}

SearchInit ==
    /\ ssCall \in SearchCalls
    /\ ssRes = [status |-> "None"]
    /\ ssPc = "call"
    /\ CatIdle
    /\ StorageIdle
    /\ MetalIdle
    /\ ParIdle
    /\ ThreadsIdle

\* t1.apply_op2(&t2, SearchSorted { right }) on the CPU.
SearchCall ==
    /\ ssPc = "call"
    /\ ssRes' = CpuFwd(ssCall)
    /\ ssPc' = "done"
    /\ UNCHANGED <<ssCall, catVars, stVars, metalVars, parVars, bs, kn, lk>>

SearchNext == SearchCall

SpecSearch == SearchInit /\ [][SearchNext]_vars

\* The number of elements of a row less than v, or less than or equal to v.
CountBelow(s, v, right) ==
    Cardinality({p \in 1..Len(s) : IF right THEN s[p] <= v ELSE s[p] < v})

\* The first index i with s[i] >= v, or len(s).
FirstNotBelow(s, v) ==
    IF \E p \in 1..Len(s) : s[p] >= v
    THEN (CHOOSE p \in 1..Len(s) : s[p] >= v /\ \A q \in 1..(p - 1) : s[q] < v) - 1
    ELSE Len(s)

\* The row of an operand that goes with the output row i: its only row
\* when it is 1-d.
OperandRow(xs, dims, i) ==
    IF Len(dims) = 1 THEN xs ELSE RowSlice(xs, i, dims[Len(dims)])

MaxSlice == 4

\* The slices binary_search is called on: sorted or not, the empty one
\* included.
Slices == UNION {[1..n -> 0..MaxVal] : n \in 0..MaxSlice}

\* A midpoint rounded up.
Mid_RoundUp(start, end) == start + ((end - start + 1) \div 2)

\* `let mid = start + ((end - start) >> 1)`
Mid(start, end) == start + ((end - start) \div 2)

\* binary_search is entered: `start = 0`, `end = slice.len()`.
BsInit ==
    /\ \E slice \in Slices, value \in 0..MaxVal, right \in BOOLEAN :
          bs = [pc |-> "loop", slice |-> slice, value |-> value, right |-> right,
                start |-> 0, end |-> Len(slice), iters |-> 0, res |-> -1]
    /\ kn = [pc |-> "idle"]
    /\ lk = [pc |-> "idle"]
    /\ CatIdle
    /\ StorageIdle
    /\ MetalIdle
    /\ ParIdle
    /\ SearchIdle

\* One iteration of `while start < end`: the read of slice[mid] panics when
\* mid is out of bounds.
BsIterate ==
    /\ bs.pc = "loop"
    /\ bs.start < bs.end
    /\ LET mid == Mid(bs.start, bs.end)
       IN IF ~(mid < Len(bs.slice))
          THEN bs' = [bs EXCEPT !.pc = "panic"]
          ELSE IF Pred(bs.slice[mid + 1], bs.value, bs.right)
          THEN bs' = [bs EXCEPT !.start = mid + 1, !.iters = @ + 1]
          ELSE bs' = [bs EXCEPT !.end = mid, !.iters = @ + 1]
    /\ UNCHANGED <<catVars, stVars, metalVars, parVars, ssVars, kn, lk>>

\* The loop ends: `start as i64` is returned.
BsReturn ==
    /\ bs.pc = "loop"
    /\ ~(bs.start < bs.end)
    /\ bs' = [bs EXCEPT !.pc = "returned", !.res = bs.start]
    /\ UNCHANGED <<catVars, stVars, metalVars, parVars, ssVars, kn, lk>>

BsNext == BsIterate \/ BsReturn

SpecBinarySearch == BsInit /\ [][BsNext]_vars

\* The thread running binary_search keeps running.
SpecBinarySearchLive == SpecBinarySearch /\ WF_vars(BsNext)

\* C29: binary_search terminates on every slice, sorted or not and the
\* empty one included: at each iteration the interval end - start strictly
\* shrinks, no read of the slice is out of bounds (the indexing never
\* panics), the call returns, and the index returned is in 0..=len(slice).
C29_BinarySearchTerminates ==
    /\ [][/\ (bs.pc = "loop" /\ bs'.pc = "loop") =>
               bs'.end - bs'.start < bs.end - bs.start
          /\ bs'.pc # "panic"]_vars
    /\ [](bs.pc = "returned" => bs.res \in 0..Len(bs.slice))
    /\ <>(bs.pc = "returned")

\* binary_search has returned from an unsorted slice after several
\* iterations.
C29_Witness ==
    /\ bs.pc = "returned"
    /\ bs.iters >= 2
    /\ \E i \in 1..(Len(bs.slice) - 1) : bs.slice[i] > bs.slice[i + 1]

\* ------------------------------------------- the kernel cache (Kernels)
\* (candle-metal-kernels/src/lib.rs)
NumThreads == 2
MaxCalls == 2

Threads == 1..NumThreads

\* Two of the library sources and of the kernel names.
Sources == {"Unary", "Binary"}
Names == {"cos_float", "add_float"}

\* Library::get_function(name): the functions a compiled library has (the
\* names of `unary` are in the Unary source, those of `binary` in Binary).
HasFunction(source, name) ==
    \/ source = "Unary" /\ name = "cos_float"
    \/ source = "Binary" /\ name = "add_float"

\* A thread that is in no call.
KnThreadIdle == [pc |-> "idle", fn |-> "", source |-> "", name |-> "",
                 res |-> [status |-> "None"], calls |-> 0, hit |-> FALSE]

\* Kernels::new(): both maps empty, both locks free.
KnInit ==
    /\ kn = [pc |-> "run",
             libraries |-> [s \in Sources |-> FALSE],
             funcs |-> [n \in Names |-> <<>>],
             compiles |-> [s \in Sources |-> 0],
             wfuncs |-> 0, wlibraries |-> 0,
             th |-> [t \in Threads |-> KnThreadIdle]]
    /\ bs = [pc |-> "idle"]
    /\ lk = [pc |-> "idle"]
    /\ CatIdle
    /\ StorageIdle
    /\ MetalIdle
    /\ ParIdle
    /\ SearchIdle

\* A write guard on `libraries` that is never dropped.
DropLibraries_Leak(k, t) == k

\* The write guard on `libraries` is dropped when load_library returns.
DropLibraries(k, t) == [k EXCEPT !.wlibraries = 0]

\* Thread t calls load_function(device, source, name) or
\* load_library(device, source).
KnCall(t) ==
    /\ kn.pc = "run"
    /\ kn.th[t].pc = "idle"
    /\ kn.th[t].calls < MaxCalls
    /\ \E fn \in {"load_function", "load_library"}, source \in Sources, name \in Names :
          kn' = [kn EXCEPT !.th[t] =
                    [pc |-> IF fn = "load_function" THEN "funcs_write" ELSE "libraries_write",
                     fn |-> fn, source |-> source,
                     name |-> IF fn = "load_function" THEN name ELSE "",
                     res |-> [status |-> "None"], calls |-> @.calls + 1, hit |-> FALSE]]
    /\ UNCHANGED <<catVars, stVars, metalVars, parVars, ssVars, bs, lk>>

\* `let mut funcs = self.funcs.write()?`: blocks while the lock is held.
KnFuncsWrite(t) ==
    /\ kn.th[t].pc = "funcs_write"
    /\ kn.wfuncs = 0
    /\ kn' = [kn EXCEPT !.wfuncs = t, !.th[t].pc = "funcs_get"]
    /\ UNCHANGED <<catVars, stVars, metalVars, parVars, ssVars, bs, lk>>

\* `if let Some(func) = funcs.get(name) { Ok(func.clone()) } else ..`
KnFuncsGet(t) ==
    /\ kn.th[t].pc = "funcs_get"
    /\ IF kn.funcs[kn.th[t].name] # <<>>
       THEN kn' = [kn EXCEPT !.wfuncs = 0,
                             !.th[t].pc = "idle",
                             !.th[t].hit = TRUE,
                             !.th[t].res = [status |-> "Ok", func |-> kn.funcs[kn.th[t].name]]]
       ELSE kn' = [kn EXCEPT !.th[t].pc = "libraries_write"]
    /\ UNCHANGED <<catVars, stVars, metalVars, parVars, ssVars, bs, lk>>

\* `let mut libraries = self.libraries.write()?`: blocks while the lock is
\* held.
KnLibrariesWrite(t) ==
    /\ kn.th[t].pc = "libraries_write"
    /\ kn.wlibraries = 0
    /\ kn' = [kn EXCEPT !.wlibraries = t, !.th[t].pc = "libraries_get"]
    /\ UNCHANGED <<catVars, stVars, metalVars, parVars, ssVars, bs, lk>>

\* The body of load_library under the guard: the cached library, or
\* new_library_with_source, which compiles the source or fails; an error
\* returns through load_function as well, dropping its guard on `funcs`.
KnLibrariesGet(t) ==
    /\ kn.th[t].pc = "libraries_get"
    /\ \E compiled \in BOOLEAN :
          LET source == kn.th[t].source
              inner == kn.th[t].fn = "load_function"
              ok == kn.libraries[source] \/ compiled
              k1 == IF kn.libraries[source] \/ ~compiled THEN kn
                    ELSE [kn EXCEPT !.libraries[source] = TRUE,
                                    !.compiles[source] = @ + 1]
              k2 == DropLibraries(k1, t)
          IN kn' = IF ok /\ inner
                   THEN [k2 EXCEPT !.th[t].pc = "get_function"]
                   ELSE IF ok
                   THEN [k2 EXCEPT !.th[t].pc = "idle",
                                   !.th[t].res = [status |-> "Ok", func |-> <<source>>]]
                   ELSE [k2 EXCEPT !.wfuncs = IF inner THEN 0 ELSE @,
                                   !.th[t].pc = "idle",
                                   !.th[t].res = [status |-> "Err",
                                                  func |-> <<"LoadLibraryError">>]]
    /\ UNCHANGED <<catVars, stVars, metalVars, parVars, ssVars, bs, lk>>

\* `.get_function(name, None).map_err(..)?; funcs.insert(name, func.clone())`
KnGetFunction(t) ==
    /\ kn.th[t].pc = "get_function"
    /\ LET source == kn.th[t].source
           name == kn.th[t].name
       IN IF HasFunction(source, name)
          THEN kn' = [kn EXCEPT !.funcs[name] = <<source, name>>,
                                !.wfuncs = 0,
                                !.th[t].pc = "idle",
                                !.th[t].res = [status |-> "Ok", func |-> <<source, name>>]]
          ELSE kn' = [kn EXCEPT !.wfuncs = 0,
                                !.th[t].pc = "idle",
                                !.th[t].res = [status |-> "Err",
                                               func |-> <<"LoadFunctionError">>]]
    /\ UNCHANGED <<catVars, stVars, metalVars, parVars, ssVars, bs, lk>>

\* The steps of thread t inside a call.
KnRun(t) ==
    \/ KnFuncsWrite(t)
    \/ KnFuncsGet(t)
    \/ KnLibrariesWrite(t)
    \/ KnLibrariesGet(t)
    \/ KnGetFunction(t)

KnNext == \E t \in Threads : KnCall(t) \/ KnRun(t)

SpecKernels == KnInit /\ [][KnNext]_vars

\* Every thread inside a call keeps running.
SpecKernelsLive == SpecKernels /\ \A t \in Threads : WF_vars(KnRun(t))

\* C23: load_function(device, source, name) returns the function `name` of
\* the library compiled from `source`: the cache entries are distinguished
\* by the pair (source, name), each library source is compiled at most once
\* per Kernels instance, and a request that finds its entry returns it.
C23_CacheKeyedBySourceAndName ==
    /\ \A t \in Threads :
          (/\ kn.th[t].fn = "load_function"
           /\ kn.th[t].pc = "idle"
           /\ kn.th[t].res.status = "Ok") =>
              kn.th[t].res.func = <<kn.th[t].source, kn.th[t].name>>
    /\ \A s \in Sources : kn.compiles[s] <= 1

\* C30: concurrent calls of load_function and load_library on one Kernels
\* instance cannot deadlock: the lock of `libraries` is held only inside the
\* body of load_library, so a thread that asks for the lock of `funcs` holds
\* neither lock, and the lock of `libraries` is only asked for after the one
\* of `funcs`; every call returns Ok or Err.
C30_NoDeadlock ==
    /\ [](\A t \in Threads :
            /\ kn.wlibraries = t => kn.th[t].pc = "libraries_get"
            /\ kn.th[t].pc = "funcs_write" => (kn.wfuncs # t /\ kn.wlibraries # t)
            /\ kn.wfuncs = t =>
                  kn.th[t].pc \in {"funcs_get", "libraries_write", "libraries_get",
                                   "get_function"})
    /\ \A t \in Threads :
          (kn.th[t].pc # "idle") ~>
              (kn.th[t].pc = "idle" /\ kn.th[t].res.status \in {"Ok", "Err"})

\* A thread waits for the lock of `funcs` while another thread holds it
\* together with the lock of `libraries`, on its second call.
C30_Witness ==
    \E t, u \in Threads :
        /\ t # u
        /\ kn.th[t].pc = "funcs_write"
        /\ kn.wfuncs = u
        /\ kn.wlibraries = u
        /\ kn.th[t].calls = 2
        /\ kn.th[t].res.status = "None"

\* --------------------------- the locks of MetalDevice under several threads
\* (candle-core/src/metal_backend.rs)

\* The operations the threads call on clones of one MetalDevice.
LkOps ==
    {"zeros_impl", "to_dtype", "unary_impl", "copy_strided_src", "to_cpu_storage",
     "commit", "wait_until_completed"}

\* The operations with unary_impl committing while it still holds its guard
\* from command_buffer().
Prog_CommitUnderGuard(op, ok) ==
    IF op = "zeros_impl"
    THEN <<"buffers.try_write", "drop(buffers)">>
    ELSE IF op = "to_dtype" \/ (op = "unary_impl" /\ ~ok)
    THEN <<"buffers.try_write", "drop(buffers)",
           "command_buffer.try_read", "drop(command_buffer)">>
    ELSE IF op = "unary_impl"
    THEN <<"buffers.try_write", "drop(buffers)",
           "command_buffer.try_read",
           "command_buffer.try_write", "drop(old)", "drop(command_buffer)">>
    ELSE IF op = "copy_strided_src" /\ ~ok
    THEN <<"command_buffer.try_read", "drop(command_buffer)">>
    ELSE IF op = "copy_strided_src"
    THEN <<"command_buffer.try_read", "drop(command_buffer)",
           "command_buffer.try_write", "drop(old)">>
    ELSE IF op = "to_cpu_storage" /\ ~ok
    THEN <<>>
    ELSE IF op = "to_cpu_storage"
    THEN <<"buffers.try_write", "drop(buffers)",
           "command_buffer.try_read", "drop(command_buffer)",
           "command_buffer.try_write", "old.wait_until_completed", "drop(old)">>
    ELSE IF op = "wait_until_completed"
    THEN <<"command_buffer.try_write", "old.wait_until_completed", "drop(old)">>
    ELSE <<"command_buffer.try_write", "drop(old)">>

\* The lock operations and the device waits an operation makes, in the
\* order of its source; `ok` is whether it finds a kernel for its arguments
\* (an error return drops the guards the function holds; to_cpu_storage
\* fails before its first lock operation).
Prog(op, ok) ==
    IF op = "zeros_impl"
    THEN <<"buffers.try_write", "drop(buffers)">>
    ELSE IF op = "to_dtype" \/ (op = "unary_impl" /\ ~ok)
    THEN <<"buffers.try_write", "drop(buffers)",
           "command_buffer.try_read", "drop(command_buffer)">>
    ELSE IF op = "unary_impl"
    THEN <<"buffers.try_write", "drop(buffers)",
           "command_buffer.try_read", "drop(command_buffer)",
           "command_buffer.try_write", "drop(old)">>
    ELSE IF op = "copy_strided_src" /\ ~ok
    THEN <<"command_buffer.try_read", "drop(command_buffer)">>
    ELSE IF op = "copy_strided_src"
    THEN <<"command_buffer.try_read", "drop(command_buffer)",
           "command_buffer.try_write", "drop(old)">>
    ELSE IF op = "to_cpu_storage" /\ ~ok
    THEN <<>>
    ELSE IF op = "to_cpu_storage"
    THEN <<"buffers.try_write", "drop(buffers)",
           "command_buffer.try_read", "drop(command_buffer)",
           "command_buffer.try_write", "old.wait_until_completed", "drop(old)">>
    ELSE IF op = "wait_until_completed"
    THEN <<"command_buffer.try_write", "old.wait_until_completed", "drop(old)">>
    ELSE <<"command_buffer.try_write", "drop(old)">>

\* The lock operation thread t is about to make.
Instr(l, t) ==
    IF l.th[t].status = "running"
    THEN Prog(l.th[t].op, l.th[t].ok)[l.th[t].ip]
    ELSE "none"

\* Thread t has made its lock operation: the next one, or the return.
Advance(l, t) ==
    IF l.th[t].ip = Len(Prog(l.th[t].op, l.th[t].ok))
    THEN [l EXCEPT !.th[t].status = "idle", !.th[t].ip = 0,
                   !.th[t].op = "", !.th[t].ok = TRUE]
    ELSE [l EXCEPT !.th[t].ip = @ + 1]

\* A try_write on the command buffer that looks at the writer only.
CbHolders_WriterOnly(l) == IF l.cbWriter = 0 THEN {} ELSE {l.cbWriter}

\* The threads holding a guard of the command-buffer lock.
CbHolders(l) == l.cbReaders \cup (IF l.cbWriter = 0 THEN {} ELSE {l.cbWriter})

\* `.unwrap()` on a failed try_read / try_write: thread t panics, having met
\* the lock held by `holder`; unwinding drops the guards it holds.
Unwrap(l, t, holder) ==
    [l EXCEPT !.th[t].status = "panicked", !.th[t].met = holder,
              !.cbReaders = @ \ {t},
              !.cbWriter = IF @ = t THEN 0 ELSE @,
              !.buffers = IF @ = t THEN 0 ELSE @]

\* MetalDevice::new: both locks free, the device idle, no thread in a call.
LkInit ==
    /\ lk = [pc |-> "run", cbReaders |-> {}, cbWriter |-> 0, buffers |-> 0,
             device |-> "idle",
             th |-> [t \in Threads |->
                        [status |-> "idle", op |-> "", ok |-> TRUE, ip |-> 0,
                         met |-> 0, calls |-> 0]]]
    /\ bs = [pc |-> "idle"]
    /\ kn = [pc |-> "idle"]
    /\ CatIdle
    /\ StorageIdle
    /\ MetalIdle
    /\ ParIdle
    /\ SearchIdle

\* Thread t calls an operation; one that makes no lock operation returns.
LkCall(t) ==
    /\ lk.pc = "run"
    /\ lk.th[t].status = "idle"
    /\ lk.th[t].calls < MaxCalls
    /\ \E op \in LkOps :
       \E ok \in IF op \in {"unary_impl", "copy_strided_src", "to_cpu_storage"}
                 THEN BOOLEAN ELSE {TRUE} :
          lk' = [lk EXCEPT !.th[t] =
                    IF Prog(op, ok) = <<>>
                    THEN [@ EXCEPT !.calls = @ + 1]
                    ELSE [status |-> "running", op |-> op, ok |-> ok, ip |-> 1,
                          met |-> 0, calls |-> @.calls + 1]]
    /\ UNCHANGED <<catVars, stVars, metalVars, parVars, ssVars, bs, kn>>

\* `self.buffers.try_write().unwrap()` of _new_buffer
LkBuffersTryWrite(t) ==
    /\ Instr(lk, t) = "buffers.try_write"
    /\ lk' = IF lk.buffers # 0 THEN Unwrap(lk, t, lk.buffers)
             ELSE Advance([lk EXCEPT !.buffers = t], t)
    /\ UNCHANGED <<catVars, stVars, metalVars, parVars, ssVars, bs, kn>>

\* _new_buffer returns: its guard is dropped.
LkBuffersDrop(t) ==
    /\ Instr(lk, t) = "drop(buffers)"
    /\ lk' = Advance([lk EXCEPT !.buffers = 0], t)
    /\ UNCHANGED <<catVars, stVars, metalVars, parVars, ssVars, bs, kn>>

\* MetalDevice::command_buffer: `self.command_buffer.try_read().unwrap()`
LkCbTryRead(t) ==
    /\ Instr(lk, t) = "command_buffer.try_read"
    /\ lk' = IF lk.cbWriter # 0 THEN Unwrap(lk, t, lk.cbWriter)
             ELSE Advance([lk EXCEPT !.cbReaders = @ \cup {t}], t)
    /\ UNCHANGED <<catVars, stVars, metalVars, parVars, ssVars, bs, kn>>

\* `drop(command_buffer)`, or the end of the function that holds the guard.
LkCbDropRead(t) ==
    /\ Instr(lk, t) = "drop(command_buffer)"
    /\ lk' = Advance([lk EXCEPT !.cbReaders = @ \ {t}], t)
    /\ UNCHANGED <<catVars, stVars, metalVars, parVars, ssVars, bs, kn>>

\* commit / wait_until_completed: `self.command_buffer.try_write().unwrap()`
\* and `old.commit()`, which hands the work to the device.
LkCbTryWrite(t) ==
    /\ Instr(lk, t) = "command_buffer.try_write"
    /\ lk' = IF CbHolders(lk) # {}
             THEN Unwrap(lk, t, CHOOSE h \in CbHolders(lk) : TRUE)
             ELSE Advance([lk EXCEPT !.cbWriter = t, !.device = "busy"], t)
    /\ UNCHANGED <<catVars, stVars, metalVars, parVars, ssVars, bs, kn>>

\* `old.wait_until_completed()` returns once the device has finished.
LkWait(t) ==
    /\ Instr(lk, t) = "old.wait_until_completed"
    /\ lk.device = "idle"
    /\ lk' = Advance(lk, t)
    /\ UNCHANGED <<catVars, stVars, metalVars, parVars, ssVars, bs, kn>>

\* commit / wait_until_completed return: the write guard is dropped.
LkCbDropWrite(t) ==
    /\ Instr(lk, t) = "drop(old)"
    /\ lk' = Advance([lk EXCEPT !.cbWriter = 0], t)
    /\ UNCHANGED <<catVars, stVars, metalVars, parVars, ssVars, bs, kn>>

\* The device finishes the committed work.
LkDeviceDone ==
    /\ lk.pc = "run"
    /\ lk.device = "busy"
    /\ lk' = [lk EXCEPT !.device = "idle"]
    /\ UNCHANGED <<catVars, stVars, metalVars, parVars, ssVars, bs, kn>>

LkNext ==
    \/ \E t \in Threads :
          \/ LkCall(t)
          \/ LkBuffersTryWrite(t)
          \/ LkBuffersDrop(t)
          \/ LkCbTryRead(t)
          \/ LkCbDropRead(t)
          \/ LkCbTryWrite(t)
          \/ LkWait(t)
          \/ LkCbDropWrite(t)
    \/ LkDeviceDone

SpecLocks == LkInit /\ [][LkNext]_vars

\* C24: no MetalDevice operation holds the command-buffer lock or the
\* buffer-pool lock while it is blocked waiting for the device to finish.
C24_NoLockAcrossWait ==
    \A t \in Threads :
        (Instr(lk, t) = "old.wait_until_completed" /\ lk.device = "busy") =>
            /\ t \notin CbHolders(lk)
            /\ lk.buffers # t

\* C25 as stated: when two threads run primitives on clones of the same
\* MetalDevice, every interleaving runs to completion: a thread that finds
\* the command-buffer lock or the pool lock held waits for it, it does not
\* fail.
C25_ContentionWaits ==
    \A t \in Threads : lk.th[t].status # "panicked"

\* C25 as the code has it: the locks keep the accesses exclusive (one
\* holder of the pool lock; a writer of the command-buffer lock excludes
\* every other holder), and a thread fails exactly by meeting a lock that
\* another thread holds: it panics then, it never waits.
C25_ContentionPanics ==
    /\ lk.cbWriter # 0 => lk.cbReaders = {}
    /\ \A t \in Threads :
          /\ lk.th[t].status = "panicked" => lk.th[t].met \in Threads \ {t}
          /\ lk.th[t].status = "panicked" =>
                (t \notin CbHolders(lk) /\ lk.buffers # t)
          /\ lk.th[t].status = "idle" =>
                (t \notin CbHolders(lk) /\ lk.buffers # t)

\* A thread has panicked on command_buffer() because another thread holds
\* the write lock while it waits for the device.
C25_Witness ==
    \E t, u \in Threads :
        /\ lk.th[t].status = "panicked"
        /\ lk.th[t].met = u
        /\ lk.th[t].op = "to_dtype"
        /\ Instr(lk, u) = "old.wait_until_completed"
        /\ lk.cbWriter = u

\* C27: within a single thread no operation requests the exclusive
\* command-buffer lock while it still holds a shared guard obtained from
\* command_buffer(), on the success path and on every error path, nor a
\* lock it holds already; a thread running alone never fails on a try_read
\* or try_write.
C27_NoSelfContention ==
    \A t \in Threads :
        /\ Instr(lk, t) = "command_buffer.try_write" => t \notin CbHolders(lk)
        /\ Instr(lk, t) = "command_buffer.try_read" => lk.cbWriter # t
        /\ Instr(lk, t) = "buffers.try_write" => lk.buffers # t
        /\ lk.th[t].status = "panicked" => lk.th[t].met # t
        /\ (\A u \in Threads \ {t} : lk.th[u].calls = 0) => lk.th[t].status # "panicked"

\* A thread running alone is about to commit after unary_impl has dropped
\* its guard, on its second call.
C27_Witness ==
    \E t \in Threads :
        /\ \A u \in Threads \ {t} : lk.th[u].calls = 0
        /\ lk.th[t].calls = 2
        /\ lk.th[t].op = "unary_impl"
        /\ lk.th[t].ip = 5
        /\ Instr(lk, t) = "command_buffer.try_write"

====
